---- MODULE Spec2Model ----
(***************************************************************************)
(* A model of the request-handling core of proxyfaqs: the in-memory rate   *)
(* limiters (lib/rate-limit and the one private to the cached search       *)
(* route), the search routes with their primary/fallback read path and     *)
(* response cache, and the chat route with its upstream call.              *)
(*                                                                         *)
(* Time is a counter of milliseconds.  The limits and the window of the    *)
(* code (20, 60 and 30 requests per 60 000 ms) are scaled down; the scaled *)
(* values are the bounds below.                                            *)
(***************************************************************************)
EXTENDS Integers, Sequences, FiniteSets, Bags, TLC

\* ------------------------------------------------------------------ bounds

\* RATE_LIMITS.chat.maxRequests (20 in the code), scaled.
ChatMaxRequests == 2
\* RATE_LIMITS.search.maxRequests and RATE_LIMIT_MAX_REQUESTS (60), scaled.
SearchMaxRequests == 3
\* windowMs and RATE_LIMIT_WINDOW_MS (60 000 ms), scaled.
WindowMs == 2
\* ENTRY_TTL (600 000 ms), scaled.
EntryTtl == 1
\* Milliseconds in a second (1000), scaled.
MsPerSec == 2
\* The clock of the limiter specification stops here.
MaxTime == 7
\* The clock of the route specifications stops here.
MaxRouteTime == 4
\* MAX_TERMS of normalizeSearchQuery (8), scaled.
MaxTerms == 2
\* MAX_LENGTH of lib's sanitizeQuery (500), scaled.
MaxQueryLength == 4
\* MAX_QUERY_LENGTH of the cached search route (200), scaled.
MaxQueryLengthV2 == 3
\* CACHE_TTL_MS (60 000 ms), scaled.
CacheTtlMs == 2
\* CACHE_MAX_SIZE (1000), scaled.
CacheMaxSize == 5
\* The clock of the cached route specification stops here.
MaxCacheTime == 3
\* MAX_LENGTH of sanitizeMessage (2000), scaled.
MaxMessageLength == 10
\* The longest text the sanitizers are applied to.
MaxInputLength == 5
\* Stands for the 1000 characters the test suite takes as the longest message.
TestedMaxLength == 8
\* Chat requests in flight at once.
NChatReq == 2
\* Search requests in flight at once.
NSearchReq == 2
\* Requests of the cached route in flight at once.
NCacheReq == 1
\* Rows an upstream reply carries at most.
MaxRows == 1
\* p_max_requests of check_rate_limit (60 by default), scaled.
SqlMaxRequests == 2
\* Database sessions that call check_rate_limit.
NTx == 3
\* Invocations of check_rate_limit in one window.
MaxSqlCalls == 4
\* The limit a function is wrapped with by rateLimit(fn, limit, interval).
WrappedLimit == 1
\* Invocations of the wrapped function.
MaxWrappedCalls == 3
\* The values Math.random() is drawn from.
NRandom == 4
\* Entries the counters Map is let grow to.
MaxCounterEntries == 4
\* The delta of an entry is not driven further than this.
MaxDelta == 3
\* MIN_QUERY_LENGTH of the cached search route.
MinQueryLength == 2
\* A stored count is not driven further than this many past maxRequests.
CountCap == 1

Ips == {"ip1", "ip2"}
\* The client the route specifications draw their requests from.
Clients == {"ip1"}
Routes == {"chat", "search"}

VARIABLES
  now,           \* Date.now()
  variant,       \* the deployment: which limiter, which search route
  store,         \* lib/rate-limit: Map identifier -> {count, resetAt}
  rateLimitMap,  \* cached search route: Map ip -> {count, resetAt}
  watched,       \* the key the observer follows
  other,         \* the other key whose checks are interleaved with the watched key's
  winStart,      \* observer: time of the window-opening check of the watched key (-1: none yet)
  nInWin,        \* observer: checks of the watched key since (and with) the window-opening one
  okInWin,       \* observer: the allowed ones among the checks inside that window
  obs,           \* observer: the latest check of the watched key
  sreq,          \* the search requests in flight: the bag of their handlers' locals
  sresp,         \* the search response sent last, with what its request did
  cache,         \* cached search route: Map cacheKey -> {timestamp, body}, in insertion order
  env,           \* which keys the environment configures
  creq,          \* the chat requests in flight: the bag of their handlers' locals
  cresp,         \* the chat response sent last, with what its request did
  call,          \* the call of a helper made last: the function, its input, its result
  db,            \* proxyfaqs.rate_limits and the transactions running check_rate_limit
  wrapped,       \* a function wrapped by rateLimit of lib/utils: its closure and its calls
  counters       \* lib/telemetry/metrics: the counters Map, in insertion order

utilVars == <<db, wrapped, counters>>
obsVars == <<watched, other, winStart, nInWin, okInWin, obs, call, utilVars>>
searchVars == <<sreq, sresp, cache>>
chatVars == <<env, creq, cresp>>

vars == <<now, variant, store, rateLimitMap, watched, other, winStart, nInWin, okInWin, obs,
          sreq, sresp, cache, env, creq, cresp, call, db, wrapped, counters>>

\* MAX_SEARCH_LIMIT, and the cap the other search routes write as a literal.
MaxSearchLimit == 100
\* The limit of a request that names none.
DefaultLimit == 20

\* No helper has been called.
NoCall == [fn |-> "none", input |-> <<>>, output |-> <<>>]

\* The database limiter, the wrapped function and the counters before any use:
\* an empty table and no transaction; an empty queue, nothing running and no
\* call made; an empty Map.
NoDb == [rows |-> <<>>, tx |-> [t \in 1..NTx |-> [pc |-> "idle", count |-> 0]],
         nCalls |-> 0, nAllowed |-> 0]
NoWrapped == [queue |-> <<>>, running |-> 0, timers |-> 0, calls |-> <<>>, started |-> <<>>]
NoCounters == <<>>

InitUtils ==
  /\ db = NoDb
  /\ wrapped = NoWrapped
  /\ counters = NoCounters

\* ------------------------------------------------------- lib/rate-limit.ts

\* Map.get of a key that is not there.
NoEntry == [count |-> 0, resetAt |-> -1]

RATE_LIMITS(route) ==
  IF route = "chat" THEN [maxRequests |-> ChatMaxRequests, windowMs |-> WindowMs]
  ELSE [maxRequests |-> SearchMaxRequests, windowMs |-> WindowMs]

\* `search:${clientIp}`, `chat:${clientIp}`
LibKeys == Routes \X Ips

\* entry.resetAt < now
WindowExpired(entry, t) == entry.resetAt < t

\* Fault: the comparison lets one request too many through.
OverLimitOffByOne(count, max) == count > max + 1
\* entry.count > config.maxRequests, after the increment
OverLimit(count, max) == count > max

\* Fault: the write of the incremented count is lost, as when another check of
\* the key ran between the look-up and the write.
checkRateLimitLostUpdate(st, identifier, config, t) ==
  LET entry == st[identifier] IN
  IF entry = NoEntry \/ WindowExpired(entry, t)
  THEN [store  |-> [st EXCEPT ![identifier] =
                      [count |-> 1, resetAt |-> t + config.windowMs]],
        result |-> [allowed |-> TRUE, remaining |-> config.maxRequests - 1,
                    resetAt |-> t + config.windowMs]]
  ELSE LET c == entry.count + 1 IN
       [store  |-> st,
        result |-> IF OverLimit(c, config.maxRequests)
                   THEN [allowed |-> FALSE, remaining |-> 0, resetAt |-> entry.resetAt]
                   ELSE [allowed |-> TRUE, remaining |-> config.maxRequests - c,
                         resetAt |-> entry.resetAt]]

\* checkRateLimit(identifier, config): the store after the call, and its result.
checkRateLimit(st, identifier, config, t) ==
  LET entry == st[identifier] IN
  IF entry = NoEntry \/ WindowExpired(entry, t)
  THEN [store  |-> [st EXCEPT ![identifier] =
                      [count |-> 1, resetAt |-> t + config.windowMs]],
        result |-> [allowed |-> TRUE, remaining |-> config.maxRequests - 1,
                    resetAt |-> t + config.windowMs]]
  ELSE LET c == entry.count + 1 IN
       [store  |-> [st EXCEPT ![identifier] = [count |-> c, resetAt |-> entry.resetAt]],
        result |-> IF OverLimit(c, config.maxRequests)
                   THEN [allowed |-> FALSE, remaining |-> 0, resetAt |-> entry.resetAt]
                   ELSE [allowed |-> TRUE, remaining |-> config.maxRequests - c,
                         resetAt |-> entry.resetAt]]

\* Fault: the sweep removes an entry as soon as its window has expired.
sweepStoreNoGrace(st, t) ==
  [k \in DOMAIN st |->
     IF st[k] # NoEntry /\ st[k].resetAt < t THEN NoEntry ELSE st[k]]

\* The setInterval sweep of rate-limit.ts.
sweepStore(st, t) ==
  [k \in DOMAIN st |->
     IF st[k] # NoEntry /\ st[k].resetAt + EntryTtl < t THEN NoEntry ELSE st[k]]

\* ------------------------------------------- cached search route's limiter

\* now > entry.resetAt
V2Expired(entry, t) == t > entry.resetAt

\* checkRateLimit(ip) of the cached search route.
checkRateLimitV2(m, ip, t) ==
  LET entry == m[ip] IN
  IF entry = NoEntry \/ V2Expired(entry, t)
  THEN [map    |-> [m EXCEPT ![ip] = [count |-> 1, resetAt |-> t + WindowMs]],
        result |-> [allowed |-> TRUE, remaining |-> SearchMaxRequests - 1,
                    resetIn |-> WindowMs]]
  ELSE IF entry.count >= SearchMaxRequests
  THEN [map    |-> m,
        result |-> [allowed |-> FALSE, remaining |-> 0, resetIn |-> entry.resetAt - t]]
  ELSE [map    |-> [m EXCEPT ![ip] = [count |-> entry.count + 1, resetAt |-> entry.resetAt]],
        result |-> [allowed |-> TRUE, remaining |-> SearchMaxRequests - (entry.count + 1),
                    resetIn |-> entry.resetAt - t]]

\* Fault: the sweep removes an entry at the last instant of its window.
cleanupRateLimitsEager(m, t) ==
  [ip \in DOMAIN m |-> IF m[ip] # NoEntry /\ t >= m[ip].resetAt THEN NoEntry ELSE m[ip]]

\* cleanupRateLimits()
cleanupRateLimits(m, t) ==
  [ip \in DOMAIN m |-> IF m[ip] # NoEntry /\ t > m[ip].resetAt THEN NoEntry ELSE m[ip]]

\* ------------------------------------------------------------------ text

\* A string is a sequence of characters; these are the characters the model
\* draws its inputs from.  "NUL" stands for the control character \x00.
Lower == {"a", "b", "c", "d", "e", "f", "g", "h", "i", "j", "k", "l", "m",
          "n", "o", "p", "q", "r", "s", "t", "u", "v", "w", "x", "y", "z"}
Upper == {"A"}
Digits == {"0", "7"}
Spaces == {" "}
Controls == {"NUL"}
Puncts == {"!", "<", ">", "=", ":"}
Chars == Lower \cup Upper \cup Digits \cup Spaces \cup Controls \cup Puncts \cup {"-", "_"}

\* \w of a JavaScript regular expression, among Chars.
WordChars == Lower \cup Upper \cup Digits \cup {"_"}

\* String.prototype.toLowerCase
toLowerCase(s) == [i \in 1..Len(s) |-> IF s[i] = "A" THEN "a" ELSE s[i]]

\* String.prototype.trim
RECURSIVE trimStart(_)
trimStart(s) ==
  IF s # <<>> /\ Head(s) \in Spaces THEN trimStart(Tail(s)) ELSE s

RECURSIVE trimEnd(_)
trimEnd(s) ==
  IF s # <<>> /\ s[Len(s)] \in Spaces THEN trimEnd(SubSeq(s, 1, Len(s) - 1)) ELSE s

trim(s) == trimEnd(trimStart(s))

\* s.slice(0, n)
slice(s, n) == IF Len(s) > n THEN SubSeq(s, 1, n) ELSE s

\* s.replace(/[set]/g, '')
removeChars(s, set) == SelectSeq(s, LAMBDA c : c \notin set)

\* s.replace(/[set]+/g, c): every maximal run of characters of set becomes one c.
RECURSIVE replaceRuns(_, _, _)
replaceRuns(s, set, c) ==
  IF s = <<>> THEN <<>>
  ELSE IF Head(s) \notin set THEN <<Head(s)>> \o replaceRuns(Tail(s), set, c)
  ELSE IF Len(s) > 1 /\ s[2] \in set THEN replaceRuns(Tail(s), set, c)
  ELSE <<c>> \o replaceRuns(Tail(s), set, c)

\* s.split(c)
RECURSIVE split(_, _)
split(s, c) ==
  IF \A i \in 1..Len(s) : s[i] # c THEN <<s>>
  ELSE LET i == CHOOSE i \in 1..Len(s) : s[i] = c /\ \A j \in 1..(i - 1) : s[j] # c
       IN <<SubSeq(s, 1, i - 1)>> \o split(SubSeq(s, i + 1, Len(s)), c)

\* pieces.join(c)
RECURSIVE join(_, _)
join(pieces, c) ==
  IF pieces = <<>> THEN <<>>
  ELSE IF Len(pieces) = 1 THEN pieces[1]
  ELSE pieces[1] \o <<c>> \o join(Tail(pieces), c)

\* normalizeSearchQuery(input) of lib/supabase.ts (and of server.mjs).
normalizeSearchQuery(input) ==
  LET folded   == replaceRuns(toLowerCase(input),
                              Chars \ (WordChars \cup Spaces \cup {"-"}), " ")
      squeezed == trim(replaceRuns(folded, Spaces, " "))
      terms    == SelectSeq(split(squeezed, " "), LAMBDA w : w # <<>>)
  IN join(slice(terms, MaxTerms), " ")

\* sanitizeInput(input) of lib/security.ts
sanitizeInput(input) == trim(removeChars(input, Controls))

\* sanitizeQuery(query) of lib/security.ts
sanitizeQuery(query) ==
  LET sanitized == sanitizeInput(query) IN
  IF Len(sanitized) > MaxQueryLength THEN slice(sanitized, MaxQueryLength) ELSE sanitized

\* sanitizeQuery(query) of the cached search route
sanitizeQueryV2(query) ==
  replaceRuns(removeChars(slice(trim(query), MaxQueryLengthV2), {"<", ">", "\"", "'", "&"}), Spaces, " ")

\* pattern.test(s) for a literal pattern: s has pat as a substring at place i.
HasAt(s, i, pat) ==
  i + Len(pat) - 1 <= Len(s) /\ SubSeq(s, i, i + Len(pat) - 1) = pat

Contains(s, pat) == \E i \in 1..Len(s) : HasAt(s, i, pat)

\* The dangerousPatterns of sanitizeMessage, all case-insensitive:
\* /<script[^>]*>/, /javascript:/, /on\w+\s*=/, /<iframe/, /<embed/, /<object/
dangerous(s) ==
  LET l == toLowerCase(s) IN
  \/ \E i \in 1..Len(l) :
       HasAt(l, i, <<"<", "s", "c", "r", "i", "p", "t">>) /\ \E j \in (i + 7)..Len(l) : l[j] = ">"
  \/ Contains(l, <<"j", "a", "v", "a", "s", "c", "r", "i", "p", "t", ":">>)
  \/ \E i \in 1..Len(l) :
       /\ HasAt(l, i, <<"o", "n">>)
       /\ \E j \in (i + 3)..Len(l), k \in (i + 3)..Len(l) :
            /\ j <= k /\ l[k] = "="
            /\ \A x \in (i + 2)..(j - 1) : l[x] \in WordChars
            /\ \A x \in j..(k - 1) : l[x] \in Spaces
  \/ Contains(l, <<"<", "i", "f", "r", "a", "m", "e">>)
  \/ Contains(l, <<"<", "e", "m", "b", "e", "d">>)
  \/ Contains(l, <<"<", "o", "b", "j", "e", "c", "t">>)

\* Fault: the check for an empty message is missing.
sanitizeMessageSkipsEmpty(message) ==
  LET sanitized == sanitizeInput(message) IN
  IF Len(sanitized) > MaxMessageLength
  THEN [valid |-> FALSE, sanitized |-> <<>>, error |-> "too long"]
  ELSE IF dangerous(sanitized)
  THEN [valid |-> FALSE, sanitized |-> <<>>, error |-> "invalid content"]
  ELSE [valid |-> TRUE, sanitized |-> sanitized, error |-> "none"]

\* sanitizeMessage(message) of lib/security.ts: {valid, sanitized, error}
sanitizeMessage(message) ==
  LET sanitized == sanitizeInput(message) IN
  IF sanitized = <<>> THEN [valid |-> FALSE, sanitized |-> <<>>, error |-> "empty"]
  ELSE IF Len(sanitized) > MaxMessageLength
  THEN [valid |-> FALSE, sanitized |-> <<>>, error |-> "too long"]
  ELSE IF dangerous(sanitized)
  THEN [valid |-> FALSE, sanitized |-> <<>>, error |-> "invalid content"]
  ELSE [valid |-> TRUE, sanitized |-> sanitized, error |-> "none"]

\* isValidSessionId(sessionId): /^[a-zA-Z0-9_-]{8,100}$/
isValidSessionId(sessionId) ==
  /\ Len(sessionId) >= 8 /\ Len(sessionId) <= 100
  /\ \A i \in 1..Len(sessionId) : sessionId[i] \in WordChars \cup {"-"}

\* ------------------------------------------------------------ search data


\* The raw q parameters and the limits the requests are drawn from.
RawQueries == {<<"a">>, <<" ", "a">>, <<"A", "b">>, <<"!", "!">>}
SearchLimits == {20}

\* A result list: the strategy that produced it and its number of rows.
NoData == [by |-> "none", rows |-> 0]

\* What supabaseRest resolves to: {data, error}.
Replies(mode) ==
  {[error |-> TRUE, data |-> NoData]} \cup
  {[error |-> FALSE, data |-> [by |-> mode, rows |-> n]] : n \in 0..MaxRows}

\* A response, and what the observer notes of the request it answers: for a 429
\* the milliseconds left of the rejecting window (due); whether it passed the
\* limiter and validation; the calls it made of the primary and of the fallback
\* strategy and which of them failed; the age of the cache entry of its key when
\* it looked (-1: no entry); whether its query normalizes to the empty string.
NoResp == [status |-> 0, results |-> NoData, query |-> <<>>, fallback |-> "absent",
           error |-> FALSE, xcache |-> "absent", limitHdr |-> -1, remainingHdr |-> -1,
           retryAfter |-> -1,
           due |-> -1, validated |-> FALSE, nPrimary |-> 0, nFallback |-> 0,
           primaryFailed |-> FALSE, fallbackFailed |-> FALSE, age |-> -1,
           normEmpty |-> FALSE, nDuration |-> 0, resetHdr |-> FALSE, requestId |-> FALSE]

\* The locals of a search handler between its awaits.
IdleReq == [pc |-> "idle", query |-> <<>>, limit |-> 0, remaining |-> 0,
            nPrimary |-> 0, nFallback |-> 0, primaryFailed |-> FALSE, age |-> -1]

\* Math.ceil(a / b), b > 0
CeilDiv(a, b) == -((-a) \div b)

\* -------------------------------------------------------------- chat data

\* The environments: which of OPENROUTER_API_KEY and VECTORENGINE_API_KEY is set,
\* and whether the Supabase URL and key are.
NoKeys == [openrouter |-> FALSE, vectorengine |-> FALSE, supabase |-> TRUE]
Envs == [openrouter : BOOLEAN, vectorengine : BOOLEAN, supabase : {TRUE}]
SearchEnvs == [openrouter : {FALSE}, vectorengine : {FALSE}, supabase : BOOLEAN]

\* The request bodies: one that JSON.parse rejects, or {message, sessionId,
\* pageContext} (an absent message or sessionId is the empty string; pageContext
\* is absent, a string, or a truthy value of another type).
LongMessage == [i \in 1..(MaxMessageLength + 1) |-> "a"]
\* 'a'.repeat(1001) of the test "should reject messages that are too long"
TestedMessage == [i \in 1..(TestedMaxLength + 1) |-> "a"]
Messages == {<<>>, <<" ", "NUL">>, <<"h", "i">>, LongMessage, TestedMessage,
             <<"<", "s", "c", "r", "i", "p", "t", ">">>}
SessionIds == {<<>>, <<"a", "b", "c", "d", "-", "0", "_", "7">>, <<"a", "!">>}
PageContexts == {"absent", "string", "other"}
Bodies ==
  {[parses |-> FALSE, message |-> <<>>, sessionId |-> <<>>, pageContext |-> "absent"]} \cup
  [parses : {TRUE}, message : Messages, sessionId : {<<>>}, pageContext : {"absent"}] \cup
  [parses : {TRUE}, message : {<<"h", "i">>}, sessionId : SessionIds,
   pageContext : PageContexts]

\* How the fetch of the chat-completions endpoint ends: it throws, or it
\* resolves to a response with a status.
FetchOutcomes == {[thrown |-> TRUE, status |-> 0]} \cup
                 [thrown : {FALSE}, status : {200, 404, 429, 500, 503}]

\* How response.json() of a 2xx reply ends: it throws, or it resolves to null,
\* or to data with or without choices[0].message.content.
JsonOutcomes == {"unparseable", "null", "content", "no content"}

\* A chat response, and what the observer notes of the request it answers:
\* whether it passed the limiter and the validation of message and session id,
\* whether its pageContext was a string or absent, how its upstream call ended
\* ("none": no call), and the calls it made of each provider.
NoChatResp == [status |-> 0, response |-> "none", error |-> FALSE, limitHdr |-> -1,
               remainingHdr |-> -1, retryAfter |-> -1,
               passed |-> FALSE, contextOk |-> TRUE, upstream |-> "none",
               nOpenRouter |-> 0, nVectorEngine |-> 0, nDuration |-> 0,
               errorText |-> "none", resetHdr |-> FALSE, requestId |-> FALSE]

\* The locals of a chat handler between its awaits.
NewChatReq == [pc |-> "body", remaining |-> -1, nOpenRouter |-> 0, nVectorEngine |-> 0]

\* ---------------------------------------------- lib/supabase.ts, server.mjs

\* Fault: a failed primary call throws at once.
SearchStepSkipsFallback(stage, reply) ==
  IF ~reply.error
  THEN [next |-> "return", results |-> reply.data, fallback |-> stage = "fallback"]
  ELSE [next |-> "throw", results |-> NoData, fallback |-> FALSE]

\* Fault: a primary success is flagged as a fallback.
SearchStepFlagsPrimary(stage, reply) ==
  IF ~reply.error THEN [next |-> "return", results |-> reply.data, fallback |-> TRUE]
  ELSE IF stage = "primary" THEN [next |-> "fallback", results |-> NoData, fallback |-> FALSE]
  ELSE [next |-> "throw", results |-> NoData, fallback |-> FALSE]

\* searchQuestionsWithFallback after the reply of its primary or its fallback call:
\* return {results, fallback}, call the fallback, or throw.
SearchStep(stage, reply) ==
  IF stage = "primary"
  THEN IF ~reply.error
       THEN [next |-> "return", results |-> reply.data, fallback |-> FALSE]
       ELSE [next |-> "fallback", results |-> NoData, fallback |-> FALSE]
  ELSE IF reply.error
       THEN [next |-> "throw", results |-> NoData, fallback |-> FALSE]
       ELSE [next |-> "return", results |-> reply.data, fallback |-> TRUE]

\* handleSearch of server.mjs after supabaseSearch('fts') or supabaseSearch('ilike')
\* resolved or threw: its try / catch / try / catch.
ServerSearchStep(stage, reply) ==
  IF stage = "primary"
  THEN IF ~reply.error
       THEN [next |-> "return", results |-> reply.data, fallback |-> FALSE]
       ELSE [next |-> "fallback", results |-> NoData, fallback |-> FALSE]
  ELSE IF ~reply.error
       THEN [next |-> "return", results |-> reply.data, fallback |-> TRUE]
       ELSE [next |-> "throw", results |-> NoData, fallback |-> FALSE]

\* ------------------------------------------------------ the search routes

LimitHeaderOfRoute(route) == RATE_LIMITS(route).maxRequests
\* rateLimitResponse(resetAt): X-RateLimit-Limit is RATE_LIMITS.chat.maxRequests
LimitHeaderOf429(route) == RATE_LIMITS("chat").maxRequests

\* rateLimitResponse(resetAt) of lib/rate-limit.ts, built for a request of `route`.
rateLimitResponse(route, resetAt, t) ==
  [NoResp EXCEPT !.status = 429, !.error = TRUE,
                 !.retryAfter = CeilDiv(resetAt - t, MsPerSec),
                 !.limitHdr = LimitHeaderOf429(route), !.remainingHdr = 0,
                 !.resetHdr = TRUE]

\* The 429 of the cached search route.
rateLimitResponseV2(rl) ==
  [NoResp EXCEPT !.status = 429, !.error = TRUE,
                 !.retryAfter = CeilDiv(rl.resetIn, MsPerSec),
                 !.limitHdr = SearchMaxRequests, !.remainingHdr = rl.remaining,
                 !.resetHdr = TRUE]

\* { results: [], query: '' } with status 200
EmptyResponse(withHeaders, remaining) ==
  [NoResp EXCEPT !.status = 200,
                 !.limitHdr = IF withHeaders THEN SearchMaxRequests ELSE -1,
                 !.remainingHdr = IF withHeaders THEN remaining ELSE -1,
                 !.resetHdr = withHeaders]

\* The 200 of a completed search, per route.
SuccessResponse(v, req, results, fallback) ==
  [NoResp EXCEPT !.status = 200, !.results = results, !.query = req.query,
                 !.fallback = IF fallback THEN "true" ELSE "false",
                 !.xcache = IF v = "cached" THEN "MISS" ELSE "absent",
                 !.limitHdr = IF v \in {"lib", "cached"} THEN SearchMaxRequests ELSE -1,
                 !.remainingHdr = IF v \in {"lib", "cached"} THEN req.remaining ELSE -1,
                 !.resetHdr = v \in {"lib", "cached"}, !.requestId = v = "lib",
                 !.nDuration = IF v = "lib" THEN 1 ELSE 0]

\* The catch block of each route.
FailureResponse(v, req) ==
  [NoResp EXCEPT !.status = IF v = "cached" THEN 503 ELSE 500,
                 !.error = TRUE,
                 !.query = IF v \in {"cached", "server"} THEN req.query ELSE <<>>,
                 !.retryAfter = IF v = "cached" THEN 5 ELSE -1,
                 !.limitHdr = IF v = "cached" THEN SearchMaxRequests ELSE -1,
                 !.remainingHdr = IF v = "cached" THEN req.remaining ELSE -1,
                 !.resetHdr = v = "cached", !.requestId = v = "lib",
                 !.nDuration = IF v = "lib" THEN 1 ELSE 0]

\* ---------------------------------------------- the cached route's cache

\* `${query.toLowerCase()}|${limit}|${category || ""}`
cacheKey(query, limit) == <<toLowerCase(query), limit, "">>

cacheHas(c, key) == \E i \in 1..Len(c) : c[i].key = key
cacheIndex(c, key) == CHOOSE i \in 1..Len(c) : c[i].key = key

\* cached && Date.now() - cached.timestamp < CACHE_TTL_MS
\* Fault: the age of the entry is not looked at.
cacheFreshStale(c, key, t) == cacheHas(c, key)

cacheFresh(c, key, t) ==
  cacheHas(c, key) /\ t - c[cacheIndex(c, key)].timestamp < CacheTtlMs

\* cache.set(key, {timestamp, body, hits: 0}): a key already there keeps its place.
\* The hits counter of an entry is read by no decision of the route and is left out.
cacheSet(c, key, t, body) ==
  LET e == [key |-> key, timestamp |-> t, body |-> body] IN
  IF cacheHas(c, key) THEN [c EXCEPT ![cacheIndex(c, key)] = e] ELSE Append(c, e)

\* Array.prototype.sort by timestamp (stable).
RECURSIVE sortByTimestamp(_)
sortByTimestamp(c) ==
  IF c = <<>> THEN <<>>
  ELSE LET i == CHOOSE i \in 1..Len(c) :
                  /\ \A j \in 1..Len(c) : c[i].timestamp <= c[j].timestamp
                  /\ \A j \in 1..(i - 1) : c[j].timestamp > c[i].timestamp
       IN <<c[i]>> \o sortByTimestamp(SubSeq(c, 1, i - 1) \o SubSeq(c, i + 1, Len(c)))

\* Fault: the sort is descending, so the newest entries go.
pruneCacheNewest(c) ==
  IF Len(c) <= CacheMaxSize THEN c
  ELSE LET sorted   == sortByTimestamp(c)
           toRemove == SubSeq(sorted, Len(sorted) - (CacheMaxSize \div 5) + 1, Len(sorted))
           gone     == {toRemove[i].key : i \in 1..Len(toRemove)}
       IN SelectSeq(c, LAMBDA e : e.key \notin gone)

\* pruneCache()
pruneCache(c) ==
  IF Len(c) <= CacheMaxSize THEN c
  ELSE LET toRemove == slice(sortByTimestamp(c), CacheMaxSize \div 5)
           gone     == {toRemove[i].key : i \in 1..Len(toRemove)}
       IN SelectSeq(c, LAMBDA e : e.key \notin gone)

\* ---------------------------------------------------------------- observer

NoObs == [seen |-> FALSE, fresh |-> FALSE, inside |-> FALSE, kth |-> 0, prev |-> 0, at |-> 0,
          max |-> 0, allowed |-> FALSE, remaining |-> 0, resetAt |-> 0,
          swept |-> FALSE, unswept |-> NoEntry,
          unsweptResult |-> [allowed |-> FALSE, remaining |-> 0, resetAt |-> 0]]

\* The check of key k made now in the run that differs from this one only in
\* that no sweep ever ran: the same checkRateLimit applied to the entry the key
\* has in that run.
UnsweptCheck(k) ==
  IF variant = "cached"
  THEN LET r == checkRateLimitV2([rateLimitMap EXCEPT ![k[2]] = obs.unswept], k[2], now)
       IN [entry  |-> r.map[k[2]],
           result |-> [allowed |-> r.result.allowed, remaining |-> r.result.remaining,
                       resetAt |-> now + r.result.resetIn]]
  ELSE LET r == checkRateLimit([store EXCEPT ![k] = obs.unswept], k, RATE_LIMITS(k[1]), now)
       IN [entry |-> r.store[k], result |-> r.result]

\* What the observer records of a check of key k at time t with result
\* (allowed, remaining, resetAt): a check is fresh when it is the first of the key
\* or comes more than WindowMs after the window-opening check, and inside when
\* it comes less than WindowMs after it; kth is its place among the checks since
\* the window-opening one, prev the number of checks the window before it had.
\* okInWin counts the allowed checks among the window-opening one and those inside.
\* swept tells that a sweep had removed the key's entry before this check.
Observe(k, max, allowed, remaining, resetAt) ==
  IF k # watched THEN UNCHANGED <<winStart, nInWin, okInWin, obs, call, utilVars>>
  ELSE LET fresh  == winStart < 0 \/ now - winStart > WindowMs
           inside == ~fresh /\ now - winStart < WindowMs
           kth    == IF fresh THEN 1 ELSE nInWin + 1
           ok     == IF allowed THEN 1 ELSE 0
       IN /\ winStart' = IF fresh THEN now ELSE winStart
          /\ nInWin' = kth
          /\ okInWin' = IF fresh THEN ok ELSE IF inside THEN okInWin + ok ELSE okInWin
          /\ obs' = [seen |-> TRUE, fresh |-> fresh,
                     inside |-> inside,
                     kth |-> kth, prev |-> nInWin, at |-> now, max |-> max, allowed |-> allowed,
                     remaining |-> remaining, resetAt |-> resetAt,
                     swept |-> obs.seen /\ (IF variant = "cached" THEN rateLimitMap[k[2]]
                                            ELSE store[k]) = NoEntry,
                     unswept |-> UnsweptCheck(k).entry,
                     unsweptResult |-> UnsweptCheck(k).result]
          /\ UNCHANGED <<call, utilVars>>

\* ----------------------------------------------------------- limiter spec

InitRL ==
  /\ now = 0
  /\ variant \in {"lib", "cached"}
  /\ store = [k \in LibKeys |-> NoEntry]
  /\ rateLimitMap = [ip \in Ips |-> NoEntry]
  /\ watched \in IF variant = "lib" THEN LibKeys ELSE {"v2"} \X Ips
  /\ other \in (IF variant = "lib" THEN LibKeys ELSE {"v2"} \X Ips) \ {watched}
  /\ winStart = -1
  /\ nInWin = 0
  /\ okInWin = 0
  /\ obs = NoObs
  /\ sreq = EmptyBag
  /\ sresp = NoResp
  /\ cache = <<>>
  /\ env = NoKeys
  /\ creq = EmptyBag
  /\ cresp = NoChatResp
  /\ call = NoCall
  /\ InitUtils

Tick(max) ==
  /\ now < max
  /\ now' = now + 1
  /\ UNCHANGED <<variant, store, rateLimitMap, obsVars, searchVars, chatVars>>

\* One call of lib's checkRateLimit, as the chat and search routes make it.
CheckLib(route, ip) ==
  /\ variant = "lib"
  /\ <<route, ip>> \in {watched, other}
  /\ store[<<route, ip>>].count < RATE_LIMITS(route).maxRequests + CountCap
  /\ LET r == checkRateLimit(store, <<route, ip>>, RATE_LIMITS(route), now) IN
       /\ store' = r.store
       /\ Observe(<<route, ip>>, RATE_LIMITS(route).maxRequests,
                  r.result.allowed, r.result.remaining, r.result.resetAt)
  /\ UNCHANGED <<now, variant, rateLimitMap, watched, other, searchVars, chatVars>>

SweepLib ==
  /\ variant = "lib"
  /\ store' = sweepStore(store, now)
  /\ UNCHANGED <<now, variant, rateLimitMap, obsVars, searchVars, chatVars>>

\* One call of the cached search route's checkRateLimit.
CheckV2(ip) ==
  /\ variant = "cached"
  /\ <<"v2", ip>> \in {watched, other}
  /\ <<"v2", ip>> = watched =>
       \/ nInWin < SearchMaxRequests + CountCap
       \/ now - winStart > WindowMs
  /\ LET r == checkRateLimitV2(rateLimitMap, ip, now) IN
       /\ rateLimitMap' = r.map
       /\ Observe(<<"v2", ip>>, SearchMaxRequests,
                  r.result.allowed, r.result.remaining, now + r.result.resetIn)
  /\ UNCHANGED <<now, variant, store, watched, other, searchVars, chatVars>>

SweepV2 ==
  /\ variant = "cached"
  /\ rateLimitMap' = cleanupRateLimits(rateLimitMap, now)
  /\ UNCHANGED <<now, variant, store, obsVars, searchVars, chatVars>>

\* store.get(identifier) / rateLimitMap.get(ip) of the watched key
WatchedEntry == IF variant = "lib" THEN store[watched] ELSE rateLimitMap[watched[2]]

NextRL ==
  \/ Tick(MaxTime)
  \/ \E route \in Routes, ip \in Ips : CheckLib(route, ip)
  \/ SweepLib
  \/ \E ip \in Ips : CheckV2(ip)
  \/ SweepV2

SpecRL == InitRL /\ [][NextRL]_vars

\* ------------------------------------------------------------ search spec

InitSearch ==
  /\ now = 0
  /\ variant \in {"lib", "server", "plain"}
  /\ store = [k \in LibKeys |-> NoEntry]
  /\ rateLimitMap = [ip \in Ips |-> NoEntry]
  /\ watched = <<"search", "ip1">>
  /\ other = <<"search", "ip2">>
  /\ winStart = -1
  /\ nInWin = 0
  /\ okInWin = 0
  /\ obs = NoObs
  /\ sreq = EmptyBag
  /\ sresp = NoResp
  /\ cache = <<>>
  /\ env \in SearchEnvs
  /\ creq = EmptyBag
  /\ cresp = NoChatResp
  /\ call = NoCall
  /\ InitUtils

\* The age of the cache entry of a key at time t, as the observer sees it.
CacheAge(c, key, t) ==
  IF \E i \in 1..Len(c) : c[i].key = key
  THEN t - c[CHOOSE i \in 1..Len(c) : c[i].key = key].timestamp
  ELSE -1

\* What the request of a response did, added to the response.
Done(resp, req, primaryFailed, fallbackFailed) ==
  [resp EXCEPT !.validated = TRUE, !.nPrimary = req.nPrimary, !.nFallback = req.nFallback,
               !.primaryFailed = primaryFailed, !.fallbackFailed = fallbackFailed,
               !.age = req.age]

\* A request whose searchQuestionsWithFallback (or supabaseSearch('fts')) has
\* issued the primary call.
Searching(req) == [req EXCEPT !.pc = "primary", !.nPrimary = 1]

\* Fault: the query is validated before the rate limiter is asked, so a short
\* query is answered without being counted.
StartLibValidatesFirst(ip, raw, limit) ==
  /\ variant = "lib"
  /\ BagCardinality(sreq) < NSearchReq
  /\ store[<<"search", ip>>].count < SearchMaxRequests + CountCap
  /\ LET rl  == checkRateLimit(store, <<"search", ip>>, RATE_LIMITS("search"), now)
         q   == sanitizeQuery(raw)
         req == [IdleReq EXCEPT !.query = q, !.remaining = rl.result.remaining]
     IN IF q = <<>> \/ Len(q) < 2
        THEN /\ sresp' = [EmptyResponse(TRUE, SearchMaxRequests) EXCEPT !.requestId = TRUE]
             /\ UNCHANGED <<store, sreq>>
        ELSE /\ store' = rl.store
             /\ IF ~rl.result.allowed
                THEN /\ sresp' = [rateLimitResponse("search", rl.result.resetAt, now)
                                    EXCEPT !.due = rl.store[<<"search", ip>>].resetAt - now,
                                      !.nDuration = 1]
                     /\ UNCHANGED sreq
                ELSE IF normalizeSearchQuery(q) = <<>>
                THEN /\ sresp' = [Done(SuccessResponse("lib", req, NoData, FALSE),
                                       req, FALSE, FALSE) EXCEPT !.normEmpty = TRUE]
                     /\ UNCHANGED sreq
                ELSE /\ sreq' = sreq (+) SetToBag({Searching(req)})
                     /\ UNCHANGED sresp
  /\ UNCHANGED <<now, variant, rateLimitMap, obsVars, cache, chatVars>>

\* GET of the search route built on lib/rate-limit and lib/security, up to its
\* first await.
StartLib(ip, raw, limit) ==
  /\ variant = "lib"
  /\ BagCardinality(sreq) < NSearchReq
  /\ store[<<"search", ip>>].count < SearchMaxRequests + CountCap
  /\ LET rl  == checkRateLimit(store, <<"search", ip>>, RATE_LIMITS("search"), now)
         q   == sanitizeQuery(raw)
         req == [IdleReq EXCEPT !.query = q, !.remaining = rl.result.remaining]
     IN /\ store' = rl.store
        /\ IF ~rl.result.allowed
           THEN /\ sresp' = [rateLimitResponse("search", rl.result.resetAt, now)
                               EXCEPT !.due = rl.store[<<"search", ip>>].resetAt - now,
                                      !.nDuration = 1]
                /\ UNCHANGED sreq
           ELSE IF q = <<>> \/ Len(q) < 2
           THEN /\ sresp' = [EmptyResponse(TRUE, rl.result.remaining)
                               EXCEPT !.requestId = TRUE]
                /\ UNCHANGED sreq
           ELSE IF normalizeSearchQuery(q) = <<>>
           THEN /\ sresp' = [Done(SuccessResponse("lib", req, NoData, FALSE),
                                  req, FALSE, FALSE) EXCEPT !.normEmpty = TRUE]
                /\ UNCHANGED sreq
           ELSE /\ sreq' = sreq (+) SetToBag({Searching(req)})
                /\ UNCHANGED sresp
  /\ UNCHANGED <<now, variant, rateLimitMap, obsVars, cache, chatVars>>

\* GET of src/pages/api/search.ts, up to its first await.
StartPlain(raw, limit) ==
  /\ variant = "plain"
  /\ BagCardinality(sreq) < NSearchReq
  /\ LET req == [IdleReq EXCEPT !.query = raw]
     IN IF trim(raw) = <<>> \/ Len(raw) < 2
        THEN /\ sresp' = EmptyResponse(FALSE, 0)
             /\ UNCHANGED sreq
        ELSE IF normalizeSearchQuery(raw) = <<>>
        THEN /\ sresp' = [Done(SuccessResponse("plain", req, NoData, FALSE),
                               req, FALSE, FALSE) EXCEPT !.normEmpty = TRUE]
             /\ UNCHANGED sreq
        ELSE /\ sreq' = sreq (+) SetToBag({Searching(req)})
             /\ UNCHANGED sresp
  /\ UNCHANGED <<now, variant, store, rateLimitMap, obsVars, cache, chatVars>>

\* handleSearch of server.mjs, up to its first await.
StartServer(raw, limit) ==
  /\ variant = "server"
  /\ BagCardinality(sreq) < NSearchReq
  /\ IF trim(raw) = <<>> \/ Len(raw) < 2 \/ normalizeSearchQuery(raw) = <<>>
     THEN /\ sresp' = EmptyResponse(FALSE, 0)
          /\ UNCHANGED sreq
     ELSE IF ~env.supabase
     THEN /\ sresp' = [EmptyResponse(FALSE, 0) EXCEPT !.query = raw, !.error = TRUE]
          /\ UNCHANGED sreq
     ELSE /\ sreq' = sreq (+) SetToBag({Searching([IdleReq EXCEPT !.query = raw])})
          /\ UNCHANGED sresp
  /\ UNCHANGED <<now, variant, store, rateLimitMap, obsVars, cache, chatVars>>

\* GET of the cached search route, up to its first await.
StartCached(ip, raw, limit) ==
  /\ variant = "cached"
  /\ BagCardinality(sreq) < NCacheReq
  /\ LET rl    == checkRateLimitV2(rateLimitMap, ip, now)
         q     == sanitizeQueryV2(raw)
         key   == cacheKey(q, limit)
         req   == [IdleReq EXCEPT !.query = q, !.limit = limit,
                                  !.remaining = rl.result.remaining,
                                  !.age = CacheAge(cache, key, now)]
     IN /\ rateLimitMap' = rl.map
        /\ IF ~rl.result.allowed
           THEN /\ sresp' = [rateLimitResponseV2(rl.result)
                               EXCEPT !.due = rl.map[ip].resetAt - now]
                /\ UNCHANGED <<sreq, cache>>
           ELSE IF q = <<>> \/ Len(q) < MinQueryLength
           THEN /\ sresp' = EmptyResponse(TRUE, rl.result.remaining)
                /\ UNCHANGED <<sreq, cache>>
           ELSE IF cacheFresh(cache, key, now)
           THEN LET i == cacheIndex(cache, key) IN
                /\ sresp' = [Done(SuccessResponse("cached", req, cache[i].body.results,
                                                  cache[i].body.fallback),
                                  req, FALSE, FALSE)
                               EXCEPT !.query = cache[i].body.query, !.xcache = "HIT"]
                /\ UNCHANGED <<sreq, cache>>
           ELSE IF normalizeSearchQuery(q) = <<>>
           THEN /\ cache' = pruneCache(cacheSet(cache, key, now,
                               [results |-> NoData, query |-> q, fallback |-> FALSE]))
                /\ sresp' = [Done(SuccessResponse("cached", req, NoData, FALSE),
                                  req, FALSE, FALSE) EXCEPT !.normEmpty = TRUE]
                /\ UNCHANGED sreq
           ELSE /\ sreq' = sreq (+) SetToBag({Searching(req)})
                /\ UNCHANGED <<sresp, cache>>
  /\ UNCHANGED <<now, variant, store, obsVars, chatVars>>

\* The continuation of a request after searchQuestionsWithFallback returned
\* {results, fallback} (or supabaseSearch resolved): the 200, and for the cached
\* route the cache update.
Complete(r, results, fallback, primaryFailed) ==
  /\ sresp' = Done(SuccessResponse(variant, r, results, fallback), r, primaryFailed, FALSE)
  /\ sreq' = sreq (-) SetToBag({r})
  /\ cache' = IF variant = "cached"
              THEN pruneCache(cacheSet(cache, cacheKey(r.query, r.limit), now,
                      [results |-> results, query |-> r.query, fallback |-> fallback]))
              ELSE cache

\* The catch block answers.
Fail(r, primaryFailed, fallbackFailed) ==
  /\ sresp' = Done(FailureResponse(variant, r), r, primaryFailed, fallbackFailed)
  /\ sreq' = sreq (-) SetToBag({r})
  /\ UNCHANGED cache

\* What a call can resolve to: without the Supabase configuration supabaseRest
\* resolves to an error at once.
RepliesOf(mode) ==
  IF env.supabase THEN Replies(mode) ELSE {[error |-> TRUE, data |-> NoData]}

StepOf(stage, reply) ==
  IF variant = "server" THEN ServerSearchStep(stage, reply) ELSE SearchStep(stage, reply)

\* The continuation of searchQuestionsWithFallback once its primary call has
\* resolved to `reply`.
PrimaryEnds(r, reply) ==
  LET step == StepOf("primary", reply) IN
  CASE step.next = "return" -> Complete(r, step.results, step.fallback, reply.error)
    [] step.next = "fallback" ->
         /\ sreq' = (sreq (-) SetToBag({r})) (+)
                     SetToBag({[r EXCEPT !.pc = "fallback", !.nFallback = @ + 1,
                                         !.primaryFailed = reply.error]})
         /\ UNCHANGED <<sresp, cache>>
    [] OTHER -> Fail(r, reply.error, FALSE)

\* The continuation once its fallback call has resolved to `reply`.
FallbackEnds(r, reply) ==
  LET step == StepOf("fallback", reply) IN
  CASE step.next = "return" -> Complete(r, step.results, step.fallback, r.primaryFailed)
    [] OTHER -> Fail(r, r.primaryFailed, reply.error)

\* The primary call of a request resolves.
PrimaryReply(r) ==
  /\ r.pc = "primary"
  /\ \E reply \in RepliesOf("fts") : PrimaryEnds(r, reply)
  /\ UNCHANGED <<now, variant, store, rateLimitMap, obsVars, chatVars>>

\* The fallback call of a request resolves.
FallbackReply(r) ==
  /\ r.pc = "fallback"
  /\ \E reply \in RepliesOf("ilike") : FallbackEnds(r, reply)
  /\ UNCHANGED <<now, variant, store, rateLimitMap, obsVars, chatVars>>

\* supabaseRest arms an AbortController timer for its fetch; the fetch of
\* supabaseSearch of server.mjs has none.
TimerArmed(v) == v \in {"lib", "plain", "cached"}

\* What supabaseRest resolves to when its timer aborts the fetch.
TimedOut == [error |-> TRUE, data |-> NoData]

\* The timer of the pending call of a request fires: the fetch is aborted and
\* supabaseRest resolves to {data: null, error}.
SearchTimeout(r) ==
  /\ TimerArmed(variant)
  /\ env.supabase
  /\ r.pc \in {"primary", "fallback"}
  /\ IF r.pc = "primary" THEN PrimaryEnds(r, TimedOut) ELSE FallbackEnds(r, TimedOut)
  /\ UNCHANGED <<now, variant, store, rateLimitMap, obsVars, chatVars>>

NextSearch ==
  \/ Tick(MaxRouteTime)
  \/ SweepLib
  \/ \E ip \in Clients, raw \in RawQueries, limit \in SearchLimits :
       StartLib(ip, raw, limit)
  \/ \E raw \in RawQueries, limit \in SearchLimits :
       StartPlain(raw, limit)
  \/ \E raw \in RawQueries, limit \in SearchLimits :
       StartServer(raw, limit)
  \/ \E r \in BagToSet(sreq) : PrimaryReply(r)
  \/ \E r \in BagToSet(sreq) : FallbackReply(r)
  \/ \E r \in BagToSet(sreq) : SearchTimeout(r)

SpecSearch == InitSearch /\ [][NextSearch]_vars

\* ------------------------------------------------------ cached route spec

InitCache ==
  /\ now = 0
  /\ variant = "cached"
  /\ store = [k \in LibKeys |-> NoEntry]
  /\ rateLimitMap = [ip \in Ips |-> NoEntry]
  /\ watched = <<"search", "ip1">>
  /\ other = <<"search", "ip2">>
  /\ winStart = -1
  /\ nInWin = 0
  /\ okInWin = 0
  /\ obs = NoObs
  /\ sreq = EmptyBag
  /\ sresp = NoResp
  /\ cache = <<>>
  /\ env \in SearchEnvs
  /\ creq = EmptyBag
  /\ cresp = NoChatResp
  /\ call = NoCall
  /\ InitUtils

NextCache ==
  \/ Tick(MaxCacheTime)
  \/ SweepV2
  \/ \E ip \in Clients, raw \in RawQueries, limit \in SearchLimits :
       StartCached(ip, raw, limit)
  \/ \E r \in BagToSet(sreq) : PrimaryReply(r)
  \/ \E r \in BagToSet(sreq) : FallbackReply(r)
  \/ \E r \in BagToSet(sreq) : SearchTimeout(r)

SpecCache == InitCache /\ [][NextCache]_vars

\* ------------------------------------------------- the cache filling up
\* The cached route serving more distinct queries than its cache holds, while
\* the database answers every primary call with the same rows.

DigitSeq == <<"0", "1", "2", "3", "4", "5", "6", "7", "8", "9">>

\* One query more than the cache has room for.
FillQuery(i) == <<"q", DigitSeq[i]>>
FillQueries == {FillQuery(i) : i \in 1..(CacheMaxSize + 1)}

\* The queries are interchangeable: a client asks for one the cache holds, or
\* for the first one it does not hold.
Asked(raw, limit) ==
  \/ cacheHas(cache, cacheKey(raw, limit))
  \/ \E i \in 1..(CacheMaxSize + 1) :
       /\ raw = FillQuery(i)
       /\ \A j \in 1..(i - 1) : cacheHas(cache, cacheKey(FillQuery(j), limit))

FoundReply == [error |-> FALSE, data |-> [by |-> "fts", rows |-> MaxRows]]

\* The primary call of a request resolves to the rows.
PrimaryFound(r) ==
  /\ r.pc = "primary"
  /\ PrimaryEnds(r, FoundReply)
  /\ UNCHANGED <<now, variant, store, rateLimitMap, obsVars, chatVars>>

InitCacheFill == InitCache /\ env.supabase

NextCacheFill ==
  \/ Tick(MaxCacheTime)
  \/ \E ip \in Clients, raw \in FillQueries, limit \in SearchLimits :
       Asked(raw, limit) /\ StartCached(ip, raw, limit)
  \/ \E r \in BagToSet(sreq) : PrimaryFound(r)

SpecCacheFill == InitCacheFill /\ [][NextCacheFill]_vars

\* --------------------------------------------------------- chat routes

\* useOpenRouter, useVectorEngine
\* Fault: with both keys configured the secondary provider is selected.
selectProviderSecondaryFirst(e) ==
  IF e.vectorengine THEN "vectorengine"
  ELSE IF e.openrouter THEN "openrouter"
  ELSE "none"

selectProvider(e) ==
  IF e.openrouter THEN "openrouter"
  ELSE IF e.vectorengine THEN "vectorengine"
  ELSE "none"

\* Fault: a 429 reply is thrown like a network error.
ChatStepThrowsOn429(outcome) ==
  IF outcome.thrown \/ outcome.status = 429 THEN "catch"
  ELSE IF ~(outcome.status >= 200 /\ outcome.status <= 299) THEN "degrade"
  ELSE "json"

\* Fault: a 5xx reply is thrown like a network error.
ChatStepThrowsOn5xx(outcome) ==
  IF outcome.thrown \/ outcome.status >= 500 THEN "catch"
  ELSE IF ~(outcome.status >= 200 /\ outcome.status <= 299) THEN "degrade"
  ELSE "json"

\* What the handler does once fetch has ended: the catch block, the
\* "trouble connecting" 200 of a reply that is not ok, or response.json().
ChatStep(outcome) ==
  IF outcome.thrown THEN "catch"
  ELSE IF ~(outcome.status >= 200 /\ outcome.status <= 299) THEN "degrade"
  ELSE "json"

\* The class of a fetch outcome, as the observer notes it.
UpstreamClass(outcome) ==
  IF outcome.thrown THEN "throw"
  ELSE IF outcome.status >= 500 THEN "5xx"
  ELSE IF outcome.status = 429 THEN "429"
  ELSE IF outcome.status >= 400 THEN "4xx"
  ELSE "2xx"

\* How often POST of chat.ts records Metrics.API_REQUEST_DURATION on the exit
\* path that answers with `status` and the `response` text `text`: once on the
\* 400s, the success and the catch paths, not on the no-key and the upstream
\* error paths; server.mjs records nothing.
DurationRecords(v, status, text) ==
  IF v = "lib" /\ (status \in {400, 500} \/ text \in {"assistant", "apology"}) THEN 1 ELSE 0

\* A response of a chat route: status, the `response` text of its body, whether
\* the body has an `error` field; chat.ts adds the rate-limit headers on every
\* path but the catch block, server.mjs never.
ChatResponse(v, req, status, text, error) ==
  LET headers == v = "lib" /\ status # 500 IN
  [NoChatResp EXCEPT !.status = status, !.response = text, !.error = error,
                     !.nDuration = DurationRecords(v, status, text),
                     !.limitHdr = IF headers THEN ChatMaxRequests ELSE -1,
                     !.remainingHdr = IF headers THEN req.remaining ELSE -1,
                     !.resetHdr = headers, !.requestId = v = "lib",
                     !.nOpenRouter = req.nOpenRouter, !.nVectorEngine = req.nVectorEngine]

\* Fault: the catch block answers 200 like the other paths.
ChatCatchAs200(v, req) == ChatResponse(v, req, 200, "sorry", FALSE)

\* The catch block of POST of chat.ts; the catch of the server of server.mjs.
ChatCatch(v, req) ==
  IF v = "lib" THEN ChatResponse(v, req, 500, "sorry", TRUE)
  ELSE ChatResponse(v, req, 500, "none", TRUE)

InitChat ==
  /\ now = 0
  /\ variant \in {"lib", "server"}
  /\ store = [k \in LibKeys |-> NoEntry]
  /\ rateLimitMap = [ip \in Ips |-> NoEntry]
  /\ watched = <<"chat", "ip1">>
  /\ other = <<"chat", "ip2">>
  /\ winStart = -1
  /\ nInWin = 0
  /\ okInWin = 0
  /\ obs = NoObs
  /\ sreq = EmptyBag
  /\ sresp = NoResp
  /\ cache = <<>>
  /\ env \in Envs
  /\ creq = EmptyBag
  /\ cresp = NoChatResp
  /\ call = NoCall
  /\ InitUtils

\* POST of chat.ts up to its first await (request.json()): the rate-limit check.
StartChat(ip) ==
  /\ variant = "lib"
  /\ store[<<"chat", ip>>].count < ChatMaxRequests + CountCap
  /\ LET rl == checkRateLimit(store, <<"chat", ip>>, RATE_LIMITS("chat"), now) IN
       /\ store' = rl.store
       /\ Observe(<<"chat", ip>>, ChatMaxRequests, rl.result.allowed, rl.result.remaining,
                  rl.result.resetAt)
       /\ IF ~rl.result.allowed
          THEN LET r429 == rateLimitResponse("chat", rl.result.resetAt, now) IN
               /\ cresp' = [NoChatResp EXCEPT !.status = r429.status, !.error = r429.error,
                                              !.retryAfter = r429.retryAfter,
                                              !.nDuration = 1,
                                              !.limitHdr = r429.limitHdr,
                                              !.remainingHdr = r429.remainingHdr,
                                              !.resetHdr = r429.resetHdr]
               /\ UNCHANGED creq
          ELSE /\ BagCardinality(creq) < NChatReq
               /\ creq' = creq (+) SetToBag({[NewChatReq EXCEPT !.remaining = rl.result.remaining]})
               /\ UNCHANGED cresp
  /\ UNCHANGED <<now, variant, rateLimitMap, watched, other, searchVars, env>>

\* handleChat of server.mjs up to its first await (readJsonBody).
StartChatServer ==
  /\ variant = "server"
  /\ BagCardinality(creq) < NChatReq
  /\ creq' = creq (+) SetToBag({NewChatReq})
  /\ UNCHANGED <<now, variant, store, rateLimitMap, obsVars, searchVars, env, cresp>>

\* The body of a request has been read: validation, provider selection, and the
\* fetch is issued.
BodyRead(r, body) ==
  /\ r.pc = "body"
  /\ LET rest     == creq (-) SetToBag({r})
         v        == variant
         msg      == sanitizeMessage(body.message)
         invalid  == IF v = "lib" THEN ~msg.valid ELSE trim(body.message) = <<>>
         badSid   == v = "lib" /\ body.sessionId # <<>> /\ ~isValidSessionId(body.sessionId)
         provider == selectProvider(env)
         passed(resp) == [resp EXCEPT !.passed = TRUE]
     IN IF ~body.parses
        THEN creq' = rest /\ cresp' = ChatCatch(v, r)
        ELSE IF invalid \/ badSid
        THEN /\ creq' = rest
             /\ cresp' = [ChatResponse(v, r, 400, "none", TRUE)
                            EXCEPT !.errorText = IF v # "lib" THEN "required"
                                                 ELSE IF invalid THEN msg.error
                                                 ELSE "session"]
        ELSE IF v = "lib" /\ body.pageContext = "other"
        THEN creq' = rest /\ cresp' = [passed(ChatCatch(v, r)) EXCEPT !.contextOk = FALSE]
        ELSE IF provider = "none"
        THEN creq' = rest /\ cresp' = passed(ChatResponse(v, r, 200, "helper", FALSE))
        ELSE /\ creq' = rest (+) SetToBag({
                  [r EXCEPT !.pc = "fetch",
                           !.nOpenRouter = IF provider = "openrouter" THEN @ + 1 ELSE @,
                           !.nVectorEngine = IF provider = "vectorengine" THEN @ + 1 ELSE @]})
             /\ UNCHANGED cresp
  /\ UNCHANGED <<now, variant, store, rateLimitMap, obsVars, searchVars, env>>

\* The fetch of a request ends.
FetchEnds(r, outcome) ==
  /\ r.pc = "fetch"
  /\ LET rest == creq (-) SetToBag({r})
         step == ChatStep(outcome)
         noted(resp) == [resp EXCEPT !.passed = TRUE, !.upstream = UpstreamClass(outcome)]
     IN CASE step = "catch" -> creq' = rest /\ cresp' = noted(ChatCatch(variant, r))
          [] step = "degrade" ->
               creq' = rest /\ cresp' = noted(ChatResponse(variant, r, 200, "trouble", FALSE))
          [] OTHER -> creq' = rest (+) SetToBag({[r EXCEPT !.pc = "json"]}) /\ UNCHANGED cresp
  /\ UNCHANGED <<now, variant, store, rateLimitMap, obsVars, searchVars, env>>

\* response.json() of a 2xx reply ends.
JsonEnds(r, outcome) ==
  /\ r.pc = "json"
  /\ creq' = creq (-) SetToBag({r})
  /\ cresp' = [(CASE outcome \in {"unparseable", "null"} -> ChatCatch(variant, r)
                  [] outcome = "content" -> ChatResponse(variant, r, 200, "assistant", FALSE)
                  [] OTHER -> ChatResponse(variant, r, 200, "apology", FALSE))
                 EXCEPT !.passed = TRUE,
                        !.upstream = IF outcome \in {"unparseable", "null"}
                                     THEN "bad body" ELSE "2xx"]
  /\ UNCHANGED <<now, variant, store, rateLimitMap, obsVars, searchVars, env>>

NextChat ==
  \/ Tick(MaxRouteTime)
  \/ SweepLib
  \/ \E ip \in Clients : StartChat(ip)
  \/ StartChatServer
  \/ \E r \in BagToSet(creq), body \in Bodies : BodyRead(r, body)
  \/ \E r \in BagToSet(creq), outcome \in FetchOutcomes : FetchEnds(r, outcome)
  \/ \E r \in BagToSet(creq), outcome \in JsonOutcomes : JsonEnds(r, outcome)

SpecChat == InitChat /\ [][NextChat]_vars

\* A chat route that handles one request at a time, for what a handler does
\* with the body of a request.
NextChatInput ==
  \/ creq = EmptyBag /\ \E ip \in Clients : StartChat(ip)
  \/ creq = EmptyBag /\ StartChatServer
  \/ \E r \in BagToSet(creq), body \in Bodies : BodyRead(r, body)
  \/ \E r \in BagToSet(creq), outcome \in FetchOutcomes : FetchEnds(r, outcome)
  \/ \E r \in BagToSet(creq), outcome \in JsonOutcomes : JsonEnds(r, outcome)

SpecChatInput == InitChat /\ [][NextChatInput]_vars

\* ------------------------------------------------------- the limit parameter

\* url.searchParams.get('limit'): null, the empty string, a text that is no
\* number, or the decimal text of an integer.
LimitParams ==
  {[kind |-> k, n |-> 0] : k \in {"null", "empty", "text"}} \cup
  {[kind |-> "int", n |-> n] : n \in {-5, 0, 1, 5, 20, 99, 100, 101, 250}}

NaN == [nan |-> TRUE, n |-> 0]
Num(n) == [nan |-> FALSE, n |-> n]
Min(a, b) == IF a < b THEN a ELSE b
Max(a, b) == IF a > b THEN a ELSE b

\* parseInt(text, 10)
parseInt(p) == IF p.kind = "int" THEN Num(p.n) ELSE NaN

\* sanitizeLimit(limit, max, defaultLimit) of lib/security.ts
sanitizeLimit(limit, max, defaultLimit) ==
  IF limit.kind \in {"null", "empty"} THEN Num(defaultLimit)
  ELSE LET parsed == parseInt(limit) IN
       IF parsed.nan THEN Num(defaultLimit)
       ELSE IF parsed.n < 1 THEN Num(1)
       ELSE IF parsed.n > max THEN Num(max)
       ELSE parsed

\* Math.min(parseInt(url.searchParams.get("limit") || "20"), 100) of
\* src/pages/api/search.ts
limitOfPlain(limit) ==
  LET parsed == IF limit.kind \in {"null", "empty"} THEN Num(DefaultLimit)
                ELSE parseInt(limit) IN
  IF parsed.nan THEN NaN ELSE Num(Min(parsed.n, MaxSearchLimit))

\* The limit of the cached search route:
\* Number.isFinite(rawLimit) ? Math.min(Math.max(rawLimit, 1), 100) : 20
limitOfCached(limit) ==
  LET rawLimit == IF limit.kind \in {"null", "empty"} THEN Num(DefaultLimit)
                  ELSE parseInt(limit) IN
  IF ~rawLimit.nan THEN Num(Min(Max(rawLimit.n, 1), MaxSearchLimit))
  ELSE Num(DefaultLimit)

\* normalizeSearchLimit(value, fallback = 20) of server.mjs
normalizeSearchLimit(value, fallback) ==
  LET parsed == parseInt(value) IN
  IF parsed.nan \/ parsed.n <= 0 THEN Num(fallback)
  ELSE Num(Min(parsed.n, MaxSearchLimit))

\* The limit a search route hands to its upstream search.
LimitFns == {"sanitizeLimit", "search.ts", "cached", "normalizeSearchLimit"}

limitOf(fn, p) ==
  CASE fn = "sanitizeLimit" -> sanitizeLimit(p, MaxSearchLimit, DefaultLimit)
    [] fn = "search.ts" -> limitOfPlain(p)
    [] fn = "cached" -> limitOfCached(p)
    [] OTHER -> normalizeSearchLimit(p, DefaultLimit)

\* ------------------------------------------------------------ the sanitizers

\* The texts the sanitizers are applied to.
InputChars == {"a", " ", "<", "NUL"}
Inputs == UNION {[1..n -> InputChars] : n \in 0..MaxInputLength}

SanitizerFns == {"sanitizeQuery", "cached sanitizeQuery", "sanitizeMessage",
                 "normalizeSearchQuery"}

\* A sanitizer applied as its route applies it: the text it yields and whether
\* the route's validation accepts it (a query of at least 2 characters, a valid
\* message, a normalized query that is not empty).
sanitizerOf(fn, x) ==
  CASE fn = "sanitizeQuery" ->
         LET q == sanitizeQuery(x) IN [valid |-> Len(q) >= 2, value |-> q]
    [] fn = "cached sanitizeQuery" ->
         LET q == sanitizeQueryV2(x) IN [valid |-> Len(q) >= MinQueryLength, value |-> q]
    [] fn = "sanitizeMessage" ->
         LET m == sanitizeMessage(x) IN [valid |-> m.valid, value |-> m.sanitized]
    [] OTHER ->
         LET q == normalizeSearchQuery(x) IN [valid |-> q # <<>>, value |-> q]

\* ------------------------------------------------------ the client identifier

\* request.headers.get(name): null, or the text of the header.
Absent == [present |-> FALSE, text |-> <<>>]
Header(text) == [present |-> TRUE, text |-> text]

\* The header sets the resolvers are applied to.
HeaderSets ==
  [cf   : {Absent, Header(<<>>), Header(<<"c">>)},
   real : {Absent, Header(<<>>), Header(<<"r">>)},
   xff  : {Absent, Header(<<>>), Header(<<"x">>), Header(<<"x", ",", "y">>),
           Header(<<"x", " ", ",", " ", "y">>), Header(<<",", "y">>),
           Header(<<" ", ",", "y">>)}]

\* A header value that is neither null nor the empty string.
Truthy(h) == h.present /\ h.text # <<>>

\* Fault: the first entry of x-forwarded-for is returned untrimmed.
getClientIpUntrimmed(h) ==
  IF Truthy(h.cf) THEN h.cf.text
  ELSE IF Truthy(h.xff) /\ split(h.xff.text, ",")[1] # <<>>
  THEN split(h.xff.text, ",")[1]
  ELSE IF Truthy(h.real) THEN h.real.text
  ELSE <<"local-dev">>

\* getClientIp(request) of lib/rate-limit.ts
getClientIp(h) ==
  IF Truthy(h.cf) THEN h.cf.text
  ELSE IF Truthy(h.xff) /\ trim(split(h.xff.text, ",")[1]) # <<>>
  THEN trim(split(h.xff.text, ",")[1])
  ELSE IF Truthy(h.real) THEN h.real.text
  ELSE <<"local-dev">>

\* getClientIP(request) of the cached search route
getClientIP(h) ==
  IF Truthy(h.cf) THEN h.cf.text
  ELSE IF Truthy(h.real) THEN h.real.text
  ELSE IF h.xff.present /\ trim(split(h.xff.text, ",")[1]) # <<>>
  THEN trim(split(h.xff.text, ",")[1])
  ELSE <<"unknown">>

ResolverFns == {"getClientIp", "getClientIP"}

resolverOf(fn, h) == IF fn = "getClientIp" THEN getClientIp(h) ELSE getClientIP(h)

\* ---------------------------------------------------------------- CORS

ALLOWED_ORIGINS ==
  <<"https://proxyfaqs.com", "https://www.proxyfaqs.com", "http://localhost:4321",
    "http://127.0.0.1:4321", "http://localhost:3000", "http://127.0.0.1:3000">>

AllowList == {ALLOWED_ORIGINS[i] : i \in DOMAIN ALLOWED_ORIGINS}

\* request.headers.get('origin'): null, the empty string, an allow-listed
\* origin, or another one (a different case, a look-alike host, "null").
NoOrigin == [present |-> FALSE, text |-> ""]
Origins ==
  {NoOrigin} \cup
  [present : {TRUE},
   text : AllowList \cup {"", "HTTPS://PROXYFAQS.COM", "https://proxyfaqs.com.evil.example",
                          "https://evil.example", "null"}]

\* isAllowedOrigin(origin)
isAllowedOrigin(origin) ==
  IF ~origin.present \/ origin.text = "" THEN TRUE
  ELSE \E i \in DOMAIN ALLOWED_ORIGINS : origin.text = ALLOWED_ORIGINS[i]

\* Fault: the request's origin is reflected whenever there is one.
getCorsHeadersReflects(origin) ==
  IF origin.present /\ origin.text # "" THEN origin.text ELSE ALLOWED_ORIGINS[1]

\* getCorsHeaders(origin)['Access-Control-Allow-Origin']
getCorsHeaders(origin) ==
  IF isAllowedOrigin(origin)
  THEN IF origin.present /\ origin.text # "" THEN origin.text ELSE ALLOWED_ORIGINS[1]
  ELSE ALLOWED_ORIGINS[1]

\* The responses of the routes of lib/security's callers, by how they are built:
\* the preflight reply (corsOptionsResponse), a JSON reply whose headers spread
\* getCorsHeaders(origin), and the 429 of rateLimitResponse, which has no
\* Access-Control-Allow-Origin header.
CorsExits == {"preflight", "json", "rate limited"}

corsOf(exit, origin) ==
  IF exit = "rate limited" THEN [present |-> FALSE, text |-> ""]
  ELSE [present |-> TRUE, text |-> getCorsHeaders(origin)]

\* ------------------------------------------------------- the echoed query

\* The markup `<script>`, scaled with the length caps of the sanitizers.
ScriptTag == <<"<", "s", ">">>

\* The q parameters of the requests whose echo is looked at: the tag alone,
\* the tag inside a text, a text without it.
EchoQueries == {ScriptTag, <<"a">> \o ScriptTag, <<"a", "b">>, <<"<", " ", "s", ">">>}

SearchRoutes == {"lib", "plain", "server", "cached"}

\* The `query` field of the 200 a search route answers a request for `raw`
\* with: the empty string on the short-query exit, else what the route puts in
\* the body (the sanitized query, or the q parameter as it arrived).
echoedQuery(route, raw) ==
  CASE route = "lib" ->
         LET q == sanitizeQuery(raw) IN IF q = <<>> \/ Len(q) < 2 THEN <<>> ELSE q
    [] route = "cached" ->
         LET q == sanitizeQueryV2(raw) IN
         IF q = <<>> \/ Len(q) < MinQueryLength THEN <<>> ELSE q
    [] route = "plain" ->
         IF trim(raw) = <<>> \/ Len(raw) < 2 THEN <<>> ELSE raw
    [] OTHER ->
         IF trim(raw) = <<>> \/ Len(raw) < 2 \/ normalizeSearchQuery(raw) = <<>>
         THEN <<>> ELSE raw

\* ------------------------------------------------------------ helper spec

InitHelpers ==
  /\ now = 0
  /\ variant = "lib"
  /\ store = [k \in LibKeys |-> NoEntry]
  /\ rateLimitMap = [ip \in Ips |-> NoEntry]
  /\ watched = <<"search", "ip1">>
  /\ other = <<"search", "ip2">>
  /\ winStart = -1
  /\ nInWin = 0
  /\ okInWin = 0
  /\ obs = NoObs
  /\ sreq = EmptyBag
  /\ sresp = NoResp
  /\ cache = <<>>
  /\ env = NoKeys
  /\ creq = EmptyBag
  /\ cresp = NoChatResp
  /\ call = NoCall
  /\ InitUtils

\* A search route computes the limit of a request.
ApplyLimit(fn, p) ==
  /\ call = NoCall
  /\ call' = [fn |-> fn, input |-> p, output |-> limitOf(fn, p)]
  /\ UNCHANGED <<now, variant, store, rateLimitMap, watched, other, winStart, nInWin,
                 okInWin, obs, utilVars, searchVars, chatVars>>

\* A route sanitizes a text.
ApplySanitizer(fn, x) ==
  /\ call = NoCall
  /\ call' = [fn |-> fn, input |-> x, output |-> sanitizerOf(fn, x)]
  /\ UNCHANGED <<now, variant, store, rateLimitMap, watched, other, winStart, nInWin,
                 okInWin, obs, utilVars, searchVars, chatVars>>

\* A route resolves the client identifier of a request.
ApplyResolver(fn, h) ==
  /\ call = NoCall
  /\ call' = [fn |-> fn, input |-> h, output |-> resolverOf(fn, h)]
  /\ UNCHANGED <<now, variant, store, rateLimitMap, watched, other, winStart, nInWin,
                 okInWin, obs, utilVars, searchVars, chatVars>>

\* A route answers a request with the Access-Control-Allow-Origin of its exit.
ApplyCors(exit, origin) ==
  /\ call = NoCall
  /\ call' = [fn |-> "cors", input |-> <<exit, origin>>, output |-> corsOf(exit, origin)]
  /\ UNCHANGED <<now, variant, store, rateLimitMap, watched, other, winStart, nInWin,
                 okInWin, obs, utilVars, searchVars, chatVars>>

\* A search route answers a request and echoes its query.
ApplyEcho(route, raw) ==
  /\ call = NoCall
  /\ call' = [fn |-> "echo", input |-> <<route, raw>>, output |-> echoedQuery(route, raw)]
  /\ UNCHANGED <<now, variant, store, rateLimitMap, watched, other, winStart, nInWin,
                 okInWin, obs, utilVars, searchVars, chatVars>>

NextHelpers ==
  \/ \E fn \in LimitFns, p \in LimitParams : ApplyLimit(fn, p)
  \/ \E exit \in CorsExits, origin \in Origins : ApplyCors(exit, origin)
  \/ \E route \in SearchRoutes, raw \in EchoQueries : ApplyEcho(route, raw)
  \/ \E fn \in ResolverFns, h \in HeaderSets : ApplyResolver(fn, h)
  \/ \E fn \in SanitizerFns, x \in Inputs : ApplySanitizer(fn, x)

SpecHelpers == InitHelpers /\ [][NextHelpers]_vars

\* ------------------------------------ backend/security-migration.sql
\* proxyfaqs.check_rate_limit(p_identifier, p_endpoint, p_max_requests,
\* p_window_seconds) called by several sessions for one identifier and endpoint
\* inside one window: NOW() stays in the same minute, so every invocation
\* computes the same v_current_window_end, and db.rows are the rows of
\* proxyfaqs.rate_limits with that identifier, endpoint and window_end.  Each
\* invocation is a transaction of its own at READ COMMITTED: it sees the rows
\* committed before each of its statements, its row locks last until it
\* returns, and its INSERT is seen by the others once it has returned.
\* db.nAllowed counts the invocations that returned allowed = true.

\* The variables the database limiter does not touch.
nonDbVars == <<now, variant, store, rateLimitMap, watched, other, winStart, nInWin, okInWin,
               obs, call, searchVars, chatVars, wrapped, counters>>

\* A row: request_count, whether blocked_until is set (it is then the window's
\* end, which is later than NOW()), and the session holding its row lock (0: none).
NewRow == [count |-> 1, blocked |-> FALSE, lock |-> 0]

\* The rows a session t can lock: free, or locked by itself.
Lockable(row, t) == row.lock \in {0, t}

\* The transaction of session t ends: its locks are released.
Release(rows, t) == [i \in DOMAIN rows |-> IF rows[i].lock = t THEN [rows[i] EXCEPT !.lock = 0]
                                          ELSE rows[i]]

\* A session calls the function.
SqlBegin(t) ==
  /\ db.tx[t].pc = "idle"
  /\ db.nCalls < MaxSqlCalls
  /\ db' = [db EXCEPT !.tx[t].pc = "blocked?", !.nCalls = @ + 1]
  /\ UNCHANGED nonDbVars

\* SELECT blocked_until INTO v_blocked ... AND blocked_until > NOW() FOR UPDATE;
\* IF v_blocked IS NOT NULL THEN RETURN (false, 0, v_blocked).
SqlSelectBlocked(t) ==
  /\ db.tx[t].pc = "blocked?"
  /\ LET hits == {i \in DOMAIN db.rows : db.rows[i].blocked} IN
       IF hits = {}
       THEN db' = [db EXCEPT !.tx[t].pc = "count?"]
       ELSE /\ \E i \in hits : Lockable(db.rows[i], t)
            /\ db' = [db EXCEPT !.tx[t].pc = "idle", !.rows = Release(db.rows, t)]
  /\ UNCHANGED nonDbVars

\* SELECT request_count INTO v_current_count ... AND window_end =
\* v_current_window_end FOR UPDATE: the first row the query yields is locked
\* and read (the order of the rows is not specified); no row: NULL.
SqlSelectCount(t) ==
  /\ db.tx[t].pc = "count?"
  /\ IF db.rows = <<>>
     THEN db' = [db EXCEPT !.tx[t].pc = "insert"]
     ELSE \E i \in DOMAIN db.rows :
            /\ Lockable(db.rows[i], t)
            /\ db' = [db EXCEPT !.rows[i].lock = t,
                                !.tx[t].count = db.rows[i].count,
                                !.tx[t].pc = IF db.rows[i].count < SqlMaxRequests
                                             THEN "update" ELSE "block"]
  /\ UNCHANGED nonDbVars

\* INSERT INTO proxyfaqs.rate_limits ... VALUES (..., 1);
\* RETURN (true, p_max_requests - 1, v_current_window_end).
SqlInsert(t) ==
  /\ db.tx[t].pc = "insert"
  /\ db' = [db EXCEPT !.rows = Append(db.rows, NewRow), !.tx[t].pc = "idle",
                      !.nAllowed = @ + 1]
  /\ UNCHANGED nonDbVars

\* UPDATE ... SET request_count = request_count + 1 WHERE ... window_end =
\* v_current_window_end; RETURN (true, p_max_requests - v_current_count - 1, ...).
\* The UPDATE waits for the rows another session has locked.
SqlUpdate(t) ==
  /\ db.tx[t].pc = "update"
  /\ \A i \in DOMAIN db.rows : Lockable(db.rows[i], t)
  /\ db' = [db EXCEPT
              !.rows = Release([i \in DOMAIN db.rows |-> [db.rows[i] EXCEPT !.count = @ + 1]], t),
              !.tx[t].pc = "idle", !.nAllowed = @ + 1]
  /\ UNCHANGED nonDbVars

\* UPDATE ... SET blocked_until = v_current_window_end ...; RETURN (false, 0, ...).
SqlBlock(t) ==
  /\ db.tx[t].pc = "block"
  /\ \A i \in DOMAIN db.rows : Lockable(db.rows[i], t)
  /\ db' = [db EXCEPT
              !.rows = Release([i \in DOMAIN db.rows |-> [db.rows[i] EXCEPT !.blocked = TRUE]], t),
              !.tx[t].pc = "idle"]
  /\ UNCHANGED nonDbVars

InitSql == InitHelpers

NextSql ==
  \E t \in 1..NTx :
    \/ SqlBegin(t)
    \/ SqlSelectBlocked(t)
    \/ SqlSelectCount(t)
    \/ SqlInsert(t)
    \/ SqlUpdate(t)
    \/ SqlBlock(t)

SpecSql == InitSql /\ [][NextSql]_vars

\* ------------------------------------------------- lib/utils.ts: rateLimit
\* One function wrapped by rateLimit(fn, limit, interval).  wrapped.queue holds
\* the thunks pushed by the invocations (by the number of their invocation),
\* wrapped.running is the closure's counter, wrapped.timers the setTimeout
\* callbacks not yet run (all of the same interval), wrapped.started the
\* invocations whose thunk has been called, in that order.  Of each invocation
\* wrapped.calls keeps how fn ends for its arguments (it returns a value or a
\* promise that fulfils, returns a promise that rejects, or throws), how far
\* its thunk is, and the state of the promise the wrapper returned.

nonWrappedVars == <<now, variant, store, rateLimitMap, watched, other, winStart, nInWin,
                    okInWin, obs, call, searchVars, chatVars, db, counters>>

FnOutcomes == {"return", "reject", "throw"}

\* processQueue(): the closure after the call, and whether the call threw.
\* A thunk whose fn throws throws out of next?.(), so the setTimeout that
\* follows is not reached.
processQueue(w) ==
  IF w.queue = <<>> \/ w.running >= WrappedLimit THEN [w |-> w, threw |-> FALSE]
  ELSE LET next == Head(w.queue)
           w1   == [w EXCEPT !.running = @ + 1, !.queue = Tail(@),
                             !.started = Append(@, next)]
       IN IF w.calls[next].outcome = "throw"
          THEN [w |-> [w1 EXCEPT !.calls[next].thunk = "threw"], threw |-> TRUE]
          ELSE [w |-> [w1 EXCEPT !.calls[next].thunk = "called", !.timers = @ + 1],
                threw |-> FALSE]

\* The wrapper is invoked: the executor of its promise pushes the thunk and
\* calls processQueue; an exception thrown there rejects the promise.
Invoke(outcome) ==
  /\ Len(wrapped.calls) < MaxWrappedCalls
  /\ LET id == Len(wrapped.calls) + 1
         w0 == [wrapped EXCEPT
                  !.calls = Append(@, [outcome |-> outcome, thunk |-> "queued",
                                       promise |-> "pending"]),
                  !.queue = Append(@, id)]
         r  == processQueue(w0)
     IN wrapped' = IF r.threw THEN [r.w EXCEPT !.calls[id].promise = "rejected"] ELSE r.w
  /\ UNCHANGED nonWrappedVars

\* A setTimeout callback runs: running--, processQueue().
TimerFires ==
  /\ wrapped.timers > 0
  /\ wrapped' = processQueue([wrapped EXCEPT !.timers = @ - 1, !.running = @ - 1]).w
  /\ UNCHANGED nonWrappedVars

\* Promise.resolve(fn(...args)).then(resolve).catch(reject) of invocation i
\* settles: resolve or reject of the wrapper's promise is called, which has an
\* effect only while that promise is pending.
Settle(i) ==
  /\ i \in DOMAIN wrapped.calls
  /\ wrapped.calls[i].thunk = "called"
  /\ wrapped' = [wrapped EXCEPT
                   !.calls[i].thunk = "settled",
                   !.calls[i].promise =
                     IF @ # "pending" THEN @
                     ELSE IF wrapped.calls[i].outcome = "return" THEN "fulfilled"
                     ELSE "rejected"]
  /\ UNCHANGED nonWrappedVars

InitWrapped == InitHelpers

NextWrapped ==
  \/ \E outcome \in FnOutcomes : Invoke(outcome)
  \/ TimerFires
  \/ \E i \in 1..MaxWrappedCalls : Settle(i)

SpecWrapped == InitWrapped /\ [][NextWrapped]_vars

\* The event loop runs every timer callback that is due and every promise
\* reaction that is queued.
SpecWrappedLive ==
  /\ SpecWrapped
  /\ WF_vars(TimerFires)
  /\ \A i \in 1..MaxWrappedCalls : WF_vars(Settle(i))

\* ------------------------------------------- lib/telemetry/metrics.ts
\* The counters Map as the sequence of its entries in insertion order, each
\* with the key it is stored under.

nonCounterVars == <<now, variant, store, rateLimitMap, watched, other, winStart, nInWin,
                    okInWin, obs, call, searchVars, chatVars, db, wrapped>>

\* The (name, tags) pairs the routes increment: API_REQUEST_COUNT with
\* {endpoint: 'search'} and with {endpoint: 'chat'}, SEARCH_FALLBACK_COUNT
\* without tags.
CounterPairs ==
  {[name |-> "api.request.count", tags |-> "endpoint=search"],
   [name |-> "api.request.count", tags |-> "endpoint=chat"],
   [name |-> "search.fallback.count", tags |-> "undefined"]}

\* JSON.stringify({ name, tags })
lookupKey(name, tags) == <<"json", name, tags>>

\* String(Date.now()) + Math.random().toString()
storedKey(t, random) == <<"digits", t, random>>

\* Map.set(key, value): the entry of a key already there is replaced in place.
mapSet(m, key, value) ==
  IF \E i \in DOMAIN m : m[i].key = key
  THEN [i \in DOMAIN m |-> IF m[i].key = key THEN [value EXCEPT !.key = key] ELSE m[i]]
  ELSE Append(m, [value EXCEPT !.key = key])

\* incrementCounter(name, delta, tags), Math.random() yielding `random`.
incrementCounter(m, name, delta, tags, t, random) ==
  LET key == lookupKey(name, tags) IN
  IF \E i \in DOMAIN m : m[i].key = key
  THEN LET i == CHOOSE i \in DOMAIN m : m[i].key = key
       IN [m EXCEPT ![i].delta = @ + delta, ![i].timestamp = t]
  ELSE mapSet(m, storedKey(t, random),
              [key |-> <<>>, name |-> name, delta |-> delta, timestamp |-> t, tags |-> tags])

\* A route serves a request and increments one of its counters.
IncrementCounter(pair, random) ==
  /\ Len(counters) < MaxCounterEntries
  /\ \A i \in DOMAIN counters : counters[i].delta < MaxDelta
  /\ counters' = incrementCounter(counters, pair.name, 1, pair.tags, now, random)
  /\ UNCHANGED nonCounterVars

InitMetrics == InitHelpers

NextMetrics ==
  \E pair \in CounterPairs, random \in 1..NRandom : IncrementCounter(pair, random)

SpecMetrics == InitMetrics /\ [][NextMetrics]_vars

\* ------------------------------------------------------------- all routes
\* One deployment serving one route: a search route (lib, server, plain or
\* cached) or a chat route (lib or server).
InitApi == InitSearch \/ InitCache \/ InitChat

NextApi ==
  \/ watched[1] = "chat" /\ NextChat
  \/ watched[1] = "search" /\ variant # "cached" /\ NextSearch
  \/ watched[1] = "search" /\ variant = "cached" /\ NextCache

SpecApi == InitApi /\ [][NextApi]_vars

\* ---------------------------------------------------------- chat properties

\* C2: however the chat requests of one client interleave at their awaits, the
\* checks the limiter allows among those of one window of the client's key are
\* never more than maxRequests.
C2_AllowedWithinMax == okInWin <= ChatMaxRequests

\* As many requests as the bound allows are in flight at once, the window's
\* allowance is used up, and a further request was just rejected.
C2_Witness ==
  /\ BagCardinality(creq) = NChatReq
  /\ okInWin = ChatMaxRequests
  /\ cresp.status = 429

\* C8: a request whose upstream call was answered with a 5xx status (one call is
\* all the route makes) is answered with HTTP 200 and a non-empty `response`.
C8_DegradeOn5xx ==
  cresp.upstream = "5xx" =>
    /\ cresp.status = 200
    /\ cresp.response # "none"
    /\ cresp.nOpenRouter + cresp.nVectorEngine = 1

C8_Witness ==
  cresp.upstream = "5xx" /\ cresp.status = 200 /\ cresp.response = "trouble"

C16_LongMessage ==
  [][\A r \in BagToSet(creq), body \in Bodies :
       (/\ r.pc = "body" /\ body.parses
        /\ Len(body.message) > TestedMaxLength
        /\ BodyRead(r, body)) =>
         /\ cresp'.status = 400 /\ cresp'.error /\ cresp'.errorText = "too long"
         /\ cresp'.nOpenRouter = 0 /\ cresp'.nVectorEngine = 0
         /\ creq' = creq (-) SetToBag({r})]_vars

\* ------------------------------------------------------ all-route properties

\* C12: the stages of a request run in the order rate-limit check, input
\* validation, upstream call.  A request the limiter rejected (429) was neither
\* validated nor sent upstream; a request validation rejected (the 400 of chat,
\* the empty 200 of search) was not sent upstream; and every answer given
\* without an upstream call, other than the 429 itself, was given by a handler
\* run that first counted the request in the route's limiter.
C12_StageOrder ==
  [][ /\ sresp'.status = 429 =>
           ~sresp'.validated /\ sresp'.nPrimary = 0 /\ sresp'.nFallback = 0
      /\ (sresp'.status = 200 /\ ~sresp'.validated) =>
           sresp'.nPrimary = 0 /\ sresp'.nFallback = 0
      /\ cresp'.status \in {429, 400} =>
           ~cresp'.passed /\ cresp'.nOpenRouter = 0 /\ cresp'.nVectorEngine = 0
      /\ (variant = "lib" /\ cresp'.status = 400) => cresp'.remainingHdr >= 0
      /\ (sresp' # sresp /\ sresp'.nPrimary = 0 /\ sresp'.status # 429) =>
           /\ variant = "lib" => store' # store
           /\ variant = "cached" => rateLimitMap' # rateLimitMap ]_vars

\* A too-short search query was answered after the limiter had counted it, at
\* a moment when one more request is rejected.
C12_Witness ==
  /\ variant = "lib"
  /\ sresp.status = 200 /\ ~sresp.validated /\ sresp.remainingHdr = 0
  /\ store[<<"search", "ip1">>].count = SearchMaxRequests

\* C13: every pending upstream call is bounded by a timer of the program, so
\* that a request whose upstream never replies is still answered: the timer of
\* every search call that is pending at the REST endpoint can fire, and no chat
\* completion call, for which neither chat handler arms a timer, is ever pending.
C13_EveryCallTimed ==
  /\ \A r \in BagToSet(sreq) :
       (env.supabase /\ r.pc \in {"primary", "fallback"}) => ENABLED SearchTimeout(r)
  /\ \A r \in BagToSet(creq) : r.pc # "fetch"

\* C14: on the routes that record telemetry (the search route and the chat
\* route built on lib/rate-limit), every answered request has recorded the
\* request-duration measurement exactly once, whatever its exit path.
C14_DurationOnce ==
  variant = "lib" =>
    /\ sresp.status # 0 => sresp.nDuration = 1
    /\ cresp.status # 0 => cresp.nDuration = 1

\* --------------------------------------------------------- helper properties

\* C18: whatever the `limit` parameter of a search request is, the limit handed
\* to the upstream search is an integer between 1 and 100, and it is the
\* requested value whenever that is an integer between 1 and 100.
C18_LimitClamped ==
  call.fn \in LimitFns =>
    /\ ~call.output.nan
    /\ call.output.n >= 1 /\ call.output.n <= MaxSearchLimit
    /\ (call.input.kind = "int" /\ call.input.n >= 1 /\ call.input.n <= MaxSearchLimit) =>
         call.output.n = call.input.n

\* C19: a sanitizer applied to its own output, for an input that passes
\* validation, returns that output unchanged; for the two search-query
\* sanitizers, the chat-message sanitizer and the search-query normalizer.
C19_Idempotent ==
  (call.fn \in SanitizerFns /\ call.output.valid) =>
    sanitizerOf(call.fn, call.output.value).value = call.output.value

\* C20 as stated: the client identifier is the first non-empty value among the
\* connecting-IP header, x-real-ip, the trimmed first entry of x-forwarded-for
\* and a fixed sentinel, in this order; it is never empty.
C20_ResolverOrder_Original ==
  call.fn \in ResolverFns =>
    LET h     == call.input
        first == IF h.xff.present THEN trim(split(h.xff.text, ",")[1]) ELSE <<>>
    IN /\ call.output # <<>>
       /\ call.output =
            (IF h.cf.text # <<>> THEN h.cf.text
             ELSE IF h.real.text # <<>> THEN h.real.text
             ELSE IF first # <<>> THEN first
             ELSE IF call.fn = "getClientIp" THEN <<"local-dev">> ELSE <<"unknown">>)

\* C20 amended: getClientIP of the cached route follows that order with the
\* sentinel "unknown"; getClientIp of lib/rate-limit takes the trimmed first
\* entry of x-forwarded-for before x-real-ip and has the sentinel "local-dev";
\* neither ever returns the empty string.
C20_ResolverOrder ==
  call.fn \in ResolverFns =>
    LET h     == call.input
        first == IF h.xff.present THEN trim(split(h.xff.text, ",")[1]) ELSE <<>>
        order == IF call.fn = "getClientIp"
                 THEN <<h.cf.text, first, h.real.text, <<"local-dev">> >>
                 ELSE <<h.cf.text, h.real.text, first, <<"unknown">> >>
        at    == CHOOSE i \in 1..4 : order[i] # <<>> /\ \A j \in 1..(i - 1) : order[j] = <<>>
    IN call.output # <<>> /\ call.output = order[at]

\* getClientIp of lib/rate-limit resolved a request that carries both x-real-ip
\* and a padded x-forwarded-for to the trimmed first forwarded entry.
C20_Witness ==
  /\ call.fn = "getClientIp"
  /\ ~call.input.cf.present /\ call.input.real.text = <<"r">>
  /\ call.input.xff.text = <<"x", " ", ",", " ", "y">>
  /\ call.output = <<"x">>

\* -------------------------------------------------------- search properties

\* C17: a search request whose query has fewer than 2 characters once
\* surrounding whitespace is removed is answered at once, without an upstream
\* call, with status 200, an empty result list and query "" (or, on the
\* rate-limited route, with the 429 of an exhausted window).
C17_ShortQuery ==
  [][\A raw \in RawQueries, limit \in SearchLimits, ip \in Clients :
       (/\ Len(trim(raw)) < 2
        /\ StartLib(ip, raw, limit) \/ StartPlain(raw, limit) \/ StartServer(raw, limit)) =>
         /\ sreq' = sreq
         /\ \/ sresp'.status = 429
            \/ /\ sresp'.status = 200 /\ sresp'.results = NoData /\ sresp'.query = <<>>
               /\ sresp'.nPrimary = 0 /\ sresp'.nFallback = 0]_vars

\* C4: every request the rate limiter rejects is answered with status 429, a
\* Retry-After of the whole seconds (rounded up, never negative) left until the
\* rejecting window's resetAt, X-RateLimit-Remaining 0 and an X-RateLimit-Limit
\* equal to the maxRequests of the route class whose limit was exceeded.
C4_RejectionHeaders ==
  sresp.status = 429 =>
    /\ sresp.retryAfter = CeilDiv(sresp.due, MsPerSec)
    /\ sresp.retryAfter >= 0
    /\ sresp.remainingHdr = 0
    /\ sresp.limitHdr = LimitHeaderOfRoute("search")

\* C5: a request whose primary call failed has made exactly one fallback call by
\* the time it is answered (and while the fallback is pending); when the
\* fallback failed too the answer is an error response (status 5xx, error set)
\* with an empty result list; and no error response is sent after a failed
\* primary call without the fallback call.
C5_FallbackOnceThenError ==
  /\ \A r \in BagToSet(sreq) : r.primaryFailed => r.nFallback = 1
  /\ sresp.primaryFailed => sresp.nFallback = 1
  /\ (sresp.primaryFailed /\ sresp.fallbackFailed) =>
       sresp.status >= 500 /\ sresp.error /\ sresp.results = NoData
  /\ (sresp.status >= 500 /\ sresp.nPrimary = 1) =>
       sresp.primaryFailed /\ sresp.fallbackFailed

\* Both strategies failed and the error response went out.
C5_Witness ==
  /\ sresp.primaryFailed /\ sresp.fallbackFailed /\ sresp.nFallback = 1
  /\ sresp.status >= 500

\* C6: a response (and a cached body) with fallback=true carries a list the
\* fallback strategy produced, and unless it is served from the cache its
\* request called the primary strategy, saw it fail, and called the fallback; a
\* request whose primary call succeeded, also with zero rows, is answered with
\* fallback=false and the primary's list, and made no fallback call; no fallback
\* call is pending for a request whose primary call did not fail.
C6_FallbackFlag ==
  /\ sresp.fallback = "true" =>
       /\ sresp.results.by = "ilike"
       /\ sresp.xcache # "HIT" =>
            sresp.nPrimary = 1 /\ sresp.primaryFailed /\ sresp.nFallback = 1
  /\ \A i \in 1..Len(cache) : cache[i].body.fallback => cache[i].body.results.by = "ilike"
  /\ (sresp.nPrimary = 1 /\ ~sresp.primaryFailed) =>
       sresp.fallback = "false" /\ sresp.nFallback = 0 /\ sresp.results.by = "fts"
  /\ \A r \in BagToSet(sreq) : r.nFallback > 0 => r.primaryFailed

\* A response with fallback=true and a row, after the primary call failed.
C6_Witness ==
  /\ sresp.fallback = "true" /\ sresp.results = [by |-> "ilike", rows |-> 1]
  /\ sresp.primaryFailed /\ sresp.xcache # "HIT"

\* C7 as stated: a request (past the limiter and validation) of the cached route
\* that finds an entry of its key younger than the TTL is answered from the
\* cache without a primary or fallback call, and one that finds none, or an
\* older one, calls the primary strategy.
C7_CacheTtl_Original ==
  (variant = "cached" /\ sresp.validated) =>
    IF sresp.age >= 0 /\ sresp.age < CacheTtlMs
    THEN sresp.xcache = "HIT" /\ sresp.nPrimary = 0 /\ sresp.nFallback = 0
    ELSE sresp.xcache # "HIT" /\ sresp.nPrimary = 1

\* C7, amended: ... and one that finds none, or one at least as old as the TTL,
\* is a miss that runs searchQuestionsWithFallback afresh, which calls the
\* primary strategy unless the query normalizes to the empty string (then it
\* returns an empty list with no upstream call).
C7_CacheTtl ==
  /\ (variant = "cached" /\ sresp.validated) =>
       IF sresp.age >= 0 /\ sresp.age < CacheTtlMs
       THEN sresp.xcache = "HIT" /\ sresp.nPrimary = 0 /\ sresp.nFallback = 0
       ELSE /\ sresp.xcache # "HIT"
            /\ sresp.nPrimary = IF sresp.normEmpty THEN 0 ELSE 1
  /\ \A r \in BagToSet(sreq) :
       variant = "cached" => ~(r.age >= 0 /\ r.age < CacheTtlMs)

\* A request found an entry older than the TTL and searched upstream again.
C7_Witness ==
  /\ variant = "cached" /\ sresp.validated
  /\ sresp.age > CacheTtlMs /\ sresp.nPrimary = 1 /\ sresp.xcache = "MISS"

\* ------------------------------------------------------- limiter properties

\* C1: for the watched key with maxRequests = N, whatever checks of the other key
\* are interleaved: the window-opening check and every later check less than
\* windowMs after it are allowed while they are among the first N, with remaining
\* = N - k for the k-th of them (N-1 down to 0); the (N+1)-th such check is
\* rejected with remaining 0; and the first check made more than windowMs after
\* the window-opening check is allowed with remaining N-1 and resetAt = now + windowMs.
C1_WindowContract ==
  obs.seen =>
    /\ obs.fresh =>
         obs.allowed /\ obs.remaining = obs.max - 1 /\ obs.resetAt = obs.at + WindowMs
    /\ (obs.inside /\ obs.kth <= obs.max) =>
         obs.allowed /\ obs.remaining = obs.max - obs.kth
    /\ (obs.inside /\ obs.kth = obs.max + 1) =>
         ~obs.allowed /\ obs.remaining = 0

\* A window was used up and one more check rejected, and the check now observed
\* opened the next window, while the other key has an entry of its own.
C1_Witness ==
  /\ obs.seen /\ obs.fresh /\ obs.prev > obs.max
  /\ IF variant = "lib" THEN store[other] # NoEntry ELSE rateLimitMap[other[2]] # NoEntry

\* C3: the stored count of every rate-limit entry is at most its maxRequests.
C3_CountWithinMax ==
  /\ \A k \in LibKeys : store[k].count <= RATE_LIMITS(k[1]).maxRequests
  /\ \A ip \in Ips : rateLimitMap[ip].count <= SearchMaxRequests

\* ------------------------------------------------------------ C21
\* C21: the Access-Control-Allow-Origin value of a response is on the origin
\* allow-list; it is the request's Origin exactly when that origin is on the
\* list, and the first allow-listed origin when the Origin header is absent,
\* empty or not on the list.
C21_AllowOrigin ==
  (call.fn = "cors" /\ call.output.present) =>
    LET origin == call.input[2]
        value == call.output.text
        listed == origin.present /\ origin.text \in AllowList
    IN /\ value \in AllowList
       /\ listed => value = origin.text
       /\ ~listed => value = ALLOWED_ORIGINS[1]

\* A cross-origin request from an origin off the list was answered with the
\* first allow-listed origin.
C21_Witness ==
  /\ call.fn = "cors"
  /\ call.input[1] = "json"
  /\ call.input[2].present
  /\ call.input[2].text = "https://evil.example"
  /\ call.output.text = "https://proxyfaqs.com"

\* ------------------------------------------------------------ C22
\* C22: every response of /api/chat and /api/search, on every exit path (the
\* 400, 429 and 5xx ones included), carries X-RateLimit-Limit,
\* X-RateLimit-Remaining, X-RateLimit-Reset and X-Request-ID.  Stated of the
\* routes built on lib/rate-limit (chat.ts and the search route beside it).
C22_HeadersOnEveryPath ==
  variant = "lib" =>
  LET carriesAll(resp) ==
        /\ resp.limitHdr # -1
        /\ resp.remainingHdr # -1
        /\ resp.resetHdr
        /\ resp.requestId
  IN /\ sresp.status # 0 => carriesAll(sresp)
     /\ cresp.status # 0 => carriesAll(cresp)

\* ------------------------------------------------------------ C23
\* C23: the `query` field echoed in a search response never contains the
\* markup substring `<script>`, whatever query string the client sent.
C23_NoScriptEcho ==
  call.fn = "echo" => ~Contains(call.output, ScriptTag)

\* ------------------------------------------------------------ C24
\* C24 as stated: once a key has made its first request, the limiter store
\* holds an entry for it in every later state, whatever checks and sweeps
\* happen in between.
C24_ExactlyOne_Original ==
  obs.seen => WatchedEntry # NoEntry

\* C24, amended: the store is a map, so a key never has more than one entry;
\* after its first request the key's entry stays, with the resetAt of its
\* latest check, until a sweep removes it, and a sweep removes it only after
\* its window has expired (lib/rate-limit: more than ENTRY_TTL after resetAt;
\* the cached route: after resetAt).
C24_OneEntryUntilSwept ==
  obs.seen =>
    IF WatchedEntry = NoEntry
    THEN now > obs.resetAt + (IF variant = "lib" THEN EntryTtl ELSE 0)
    ELSE WatchedEntry.resetAt = obs.resetAt /\ WatchedEntry.count >= 1

\* A sweep removed the entry of a key that had made requests.
C24_Witness ==
  obs.seen /\ WatchedEntry = NoEntry /\ variant = "lib"

\* ------------------------------------------------------------ C25
\* C25: a cleanup sweep run at any point between two rate-limit checks never
\* changes the result (allowed, remaining, resetAt) of a later check: every
\* check returns what it returns in the run of the same checks at the same
\* times in which no sweep ran.
C25_SweepNeutral ==
  obs.seen =>
    /\ obs.allowed = obs.unsweptResult.allowed
    /\ obs.remaining = obs.unsweptResult.remaining
    /\ obs.resetAt = obs.unsweptResult.resetAt

\* A check of a key whose entry a sweep had removed, while the run without
\* sweeps still holds the key's old, exhausted entry.
C25_Witness ==
  /\ obs.seen
  /\ obs.swept
  /\ obs.prev > obs.max
  /\ obs.allowed

C27_HalfOpenWindow ==
  (obs.seen /\ ~obs.fresh /\ ~obs.inside) =>
    /\ obs.allowed
    /\ obs.remaining = obs.max - 1
    /\ obs.resetAt = obs.at + WindowMs

\* ------------------------------------------------------------ C28
\* C28: when invocations of check_rate_limit for one identifier and endpoint
\* run in concurrent transactions, the number of them that return allowed =
\* true within one window never exceeds p_max_requests.
C28_SqlAllowedWithinMax ==
  db.nAllowed <= SqlMaxRequests

\* ------------------------------------------------------------ C29
\* C29: every invocation of a function wrapped by rateLimit is eventually
\* started, the invocations are started in the order they were made, and the
\* promise each returned eventually settles, whatever the outcome (return,
\* rejection or synchronous throw) of earlier invocations.
C29_EveryCallServed ==
  /\ [](\A j, k \in DOMAIN wrapped.started :
          j < k => wrapped.started[j] < wrapped.started[k])
  /\ \A i \in 1..MaxWrappedCalls :
       (i \in DOMAIN wrapped.calls) ~>
         (/\ i \in DOMAIN wrapped.calls
          /\ wrapped.calls[i].thunk # "queued"
          /\ wrapped.calls[i].promise # "pending")

\* ------------------------------------------------------------ C30
\* C30: the counters store holds at most one entry per distinct (name, tags)
\* pair: repeated incrementCounter calls for one pair add to the entry that is
\* there, so the store has no more entries than there are distinct pairs.
C30_OneEntryPerPair ==
  /\ \A i, j \in DOMAIN counters :
       (counters[i].name = counters[j].name /\ counters[i].tags = counters[j].tags) => i = j
  /\ Len(counters) <= Cardinality(CounterPairs)

====
